---- MODULE Spec2Model ----
(***************************************************************************)
(* Model of the Swindon waste-collection back end:                         *)
(*   - SwindonScraper._make_request, the retry/backoff loop                *)
(*     (api/services/swindon_scraper.py);                                  *)
(*   - SwindonScraper.get_collections, the schedule extraction             *)
(*     (api/services/swindon_scraper.py);                                  *)
(*   - UPRNLookupService._normalize_postcode / validate_postcode / lookup  *)
(*     (api/services/uprn_lookup.py);                                      *)
(*   - the request handlers of the postcode-lookup endpoint                *)
(*     (api/uprn-lookup.py, run_local.py) and of the schedule endpoint     *)
(*     (api/waste_collections.py, api/waste-collections.py,                *)
(*     api/waste-collections/[uprn].py, run_local.py);                     *)
(*   - two requests served at the same time, each by its own scraper.      *)
(* Text is modelled as sequences of one-character strings, so that         *)
(* stripping, upper-casing, searching and pattern matching are computed.   *)
(***************************************************************************)
EXTENDS Integers, Sequences, FiniteSets, TLC

VARIABLES
    \* SwindonScraper instance and one _make_request call
    max_retries,     \* self.max_retries
    retry_delay,     \* self.retry_delay
    attempt,         \* loop variable of "for attempt in range(self.max_retries)"
    mr_pc,           \* "idle" | "loop" | "done": position of the call
    outcomes,        \* outcome of every request issued so far, in order
    sleeps,          \* every time.sleep so far: [after |-> attempt, delay |-> seconds]
    mr_result,       \* what the call returned or raised
    \* UPRNLookupService: one evaluation of the postcode functions
    postcode,        \* the postcode argument
    pf_pc,           \* "idle" | "input" | "normalized" | "renormalized" | "validated"
    normalized,      \* _normalize_postcode(postcode)
    renormalized,    \* _normalize_postcode(normalized)
    valid,           \* validate_postcode(postcode)
    \* UPRNLookupService: one lookup(postcode) call
    lk_pc,               \* "idle" | "start" | "get" | "post" | "done"
    lk_postcode,         \* the postcode argument
    normalized_postcode, \* normalized_postcode
    lk_requests,         \* requests issued on self.session: [method, outcome]
    form,                \* soup.find('form') on the search page
    form_data,           \* form_data, the fields the POST submits
    page,                \* the select elements of the POST response, in document order
    address_select,      \* index in page of the chosen select, 0 for None
    options,             \* address_select.find_all('option')
    addresses,           \* the list built by the option loop
    lk_result,           \* what lookup returned or raised
    \* SwindonScraper: one get_collections(uprn) call
    gc_pc,           \* "idle" | "fetch" | "done"
    soup,            \* "none" | "parsed" | "rejected": BeautifulSoup(response.content)
    today,           \* today = datetime.now().date()
    bin_sections,    \* soup.find_all('div', class_='bin-collection-content')
    collections,     \* the list built by the section loop, then sorted
    gc_result,       \* what get_collections returned or raised
    \* One request served by a handler of the two endpoints
    hd_handler,      \* the file of the handler serving the request
    hd_pc,           \* "idle" | "start" | "get" | "lookup" | "collections" |
                     \* "except" | "done"
    hd_data,         \* the request: the body of a POST, the path of a GET
    hd_uprn,         \* uprn, the identifier handed to get_collections
    hd_service,      \* "none" | "open" | "closed": the service or scraper
    hd_responses,    \* the responses whose status line was written
    hd_closes,       \* for every close(): the responses written before it
    hd_broken,       \* a write on self.wfile has raised
    hd_raised,       \* an exception left do_GET / do_POST
    \* Two requests of the schedule endpoint served at the same time
    scrapers         \* request -> its SwindonScraper and its _make_request call

retryVars == <<max_retries, retry_delay, attempt, mr_pc, outcomes, sleeps, mr_result>>

postcodeVars == <<postcode, pf_pc, normalized, renormalized, valid>>

lookupVars == <<lk_pc, lk_postcode, normalized_postcode, lk_requests, form,
                form_data, page, address_select, options, addresses, lk_result>>

collectionVars == <<gc_pc, soup, today, bin_sections, collections, gc_result>>

handlerVars == <<hd_handler, hd_pc, hd_data, hd_uprn, hd_service, hd_responses,
                 hd_closes, hd_broken, hd_raised>>

vars == <<max_retries, retry_delay, attempt, mr_pc, outcomes, sleeps, mr_result,
          postcode, pf_pc, normalized, renormalized, valid,
          lk_pc, lk_postcode, normalized_postcode, lk_requests, form,
          form_data, page, address_select, options, addresses, lk_result,
          gc_pc, soup, today, bin_sections, collections, gc_result,
          hd_handler, hd_pc, hd_data, hd_uprn, hd_service, hd_responses,
          hd_closes, hd_broken, hd_raised, scrapers>>

\* What the steps of one component leave alone.
RetryOnly ==
    UNCHANGED <<postcodeVars, lookupVars, collectionVars, handlerVars, scrapers>>
PostcodeOnly ==
    UNCHANGED <<retryVars, lookupVars, collectionVars, handlerVars, scrapers>>
LookupOnly ==
    UNCHANGED <<retryVars, postcodeVars, collectionVars, handlerVars, scrapers>>
CollectionsOnly ==
    UNCHANGED <<retryVars, postcodeVars, lookupVars, handlerVars, scrapers>>
HandlerOnly == UNCHANGED <<retryVars, postcodeVars, collectionVars, scrapers>>

(***************************************************************************)
(* Bounds of the model.                                                    *)
(***************************************************************************)
MaxRetries == 5
MaxRetryDelay == 4
MaxPostcodeLen == 6
MaxSelects == 2
MaxOptions == 2
MaxSections == 2

(***************************************************************************)
(* Generic helpers.                                                        *)
(***************************************************************************)
Min(a, b) == IF a <= b THEN a ELSE b

None == [kind |-> "none"]

\* soup.find('form') returning None, and the empty dict {}
NoForm == [found |-> FALSE, inputs |-> <<>>]
EmptyDict == [k \in {} |-> <<>>]

\* A scraper built with the constructor's defaults, no call in progress.
RetryIdle ==
    /\ max_retries = 3
    /\ retry_delay = 2
    /\ attempt = 0
    /\ mr_pc = "idle"
    /\ outcomes = <<>>
    /\ sleeps = <<>>
    /\ mr_result = None

\* No postcode function under evaluation.
PostcodeIdle ==
    /\ postcode = <<>>
    /\ pf_pc = "idle"
    /\ normalized = <<>>
    /\ renormalized = <<>>
    /\ valid = FALSE

\* No lookup in progress.
LookupIdle ==
    /\ lk_pc = "idle"
    /\ lk_postcode = <<>>
    /\ normalized_postcode = <<>>
    /\ lk_requests = <<>>
    /\ form = NoForm
    /\ form_data = EmptyDict
    /\ page = <<>>
    /\ address_select = 0
    /\ options = <<>>
    /\ addresses = <<>>
    /\ lk_result = None

\* A calendar date, and the value standing for "no date".
Date(y, m, d) == [year |-> y, month |-> m, day |-> d]
NoDate == Date(0, 0, 0)

\* No get_collections call in progress.
CollectionsIdle ==
    /\ gc_pc = "idle"
    /\ soup = "none"
    /\ today = NoDate
    /\ bin_sections = <<>>
    /\ collections = <<>>
    /\ gc_result = None

\* Two requests whose handlers have not yet constructed a scraper.
NoScrapers ==
    scrapers =
        [i \in 1..2 |->
            [pc |-> "new", session |-> "none", max_retries |-> 0,
             retry_delay |-> 0, attempt |-> 0, outcomes |-> <<>>,
             sleeps |-> <<>>, result |-> None]]

\* A request body that is no JSON.
NoJson ==
    [json |-> FALSE, object |-> FALSE, has_postcode |-> FALSE, is_str |-> FALSE,
     postcode |-> <<>>]

\* No request being handled.
HandlerIdle ==
    /\ hd_handler = "none"
    /\ hd_pc = "idle"
    /\ hd_data = NoJson
    /\ hd_uprn = <<>>
    /\ hd_service = "none"
    /\ hd_responses = <<>>
    /\ hd_closes = <<>>
    /\ hd_broken = FALSE
    /\ hd_raised = FALSE

(***************************************************************************)
(* SwindonScraper._make_request                                            *)
(***************************************************************************)
\* "Cap at 30 seconds"
CapDelay == 30

\* Status codes the upstream may answer with.
Statuses == {200, 403, 404, 500}

\* Exceptions session.get / session.post raise without a response
\* (timeout=30 makes a slow upstream a Timeout).
TransportErrors == {"ConnectionError", "Timeout"}

Resp(s) == [kind |-> "response", status |-> s]
Exc(t) == [kind |-> "exception", text |-> t]

\* response.raise_for_status(): HTTPError for 4xx and 5xx.
RaisesForStatus(s) == 400 <= s /\ s < 600

\* str(e) of the HTTPError raise_for_status raises.
HTTPErrorText(s) == <<"HTTPError", s>>

ScraperError(m) == [kind |-> "error", type |-> "SwindonScraperError", msg |-> m]

BackoffDelayUncapped(n) == retry_delay * (2 ^ n)

\* delay = min(self.retry_delay * (2 ** attempt), 30)
BackoffDelay(n) == Min(retry_delay * (2 ^ n), CapDelay)

\* time.sleep(delay) after the failed attempt n
Sleep(n) == sleeps' = Append(sleeps, [after |-> n, delay |-> BackoffDelay(n)])

\* A slip: the loop does not stop at max_retries.
InLoop_Unbounded == mr_pc = "loop"

\* for attempt in range(self.max_retries): a further pass
InLoop == mr_pc = "loop" /\ attempt < max_retries

\* The request returned a status that is neither 403 nor an HTTP error.
AttemptReturns ==
    /\ InLoop
    /\ \E s \in Statuses :
          /\ s # 403
          /\ ~RaisesForStatus(s)
          /\ outcomes' = Append(outcomes, Resp(s))
          /\ mr_result' = [kind |-> "response", attempt |-> attempt, status |-> s]
    /\ mr_pc' = "done"
    /\ UNCHANGED <<max_retries, retry_delay, attempt, sleeps>>
    /\ RetryOnly

On403NoBackoff ==
    IF attempt < max_retries - 1
    THEN /\ attempt' = attempt + 1
         /\ UNCHANGED <<mr_pc, mr_result, sleeps>>
    ELSE /\ mr_result' = ScraperError(<<"Rate limited by server (403)">>)
         /\ mr_pc' = "done"
         /\ UNCHANGED <<attempt, sleeps>>

\* if response.status_code == 403: ...
On403 ==
    IF attempt < max_retries - 1
    THEN /\ Sleep(attempt)
         /\ attempt' = attempt + 1
         /\ UNCHANGED <<mr_pc, mr_result>>
    ELSE /\ mr_result' = ScraperError(<<"Rate limited by server (403)">>)
         /\ mr_pc' = "done"
         /\ UNCHANGED <<attempt, sleeps>>

AttemptRateLimited ==
    /\ InLoop
    /\ outcomes' = Append(outcomes, Resp(403))
    /\ On403
    /\ UNCHANGED <<max_retries, retry_delay>>
    /\ RetryOnly

OnRequestExceptionLosesText(text) ==
    IF attempt < max_retries - 1
    THEN /\ Sleep(attempt)
         /\ attempt' = attempt + 1
         /\ UNCHANGED <<mr_pc, mr_result>>
    ELSE /\ mr_result' = ScraperError(<<"Max retries exceeded">>)
         /\ mr_pc' = "done"
         /\ UNCHANGED <<attempt, sleeps>>

\* except requests.exceptions.RequestException as e: ...
OnRequestException(text) ==
    IF attempt < max_retries - 1
    THEN /\ Sleep(attempt)
         /\ attempt' = attempt + 1
         /\ UNCHANGED <<mr_pc, mr_result>>
    ELSE /\ mr_result' = ScraperError(<<"Failed to fetch data: ", text>>)
         /\ mr_pc' = "done"
         /\ UNCHANGED <<attempt, sleeps>>

\* session.get / session.post raised: connection error or timeout.
AttemptRaises ==
    /\ InLoop
    /\ \E t \in TransportErrors :
          /\ outcomes' = Append(outcomes, Exc(t))
          /\ OnRequestException(t)
    /\ UNCHANGED <<max_retries, retry_delay>>
    /\ RetryOnly

\* A 4xx other than 403, or a 5xx: raise_for_status raises HTTPError, which
\* is a RequestException and so lands in the same except clause.
AttemptHTTPError ==
    /\ InLoop
    /\ \E s \in Statuses :
          /\ s # 403
          /\ RaisesForStatus(s)
          /\ outcomes' = Append(outcomes, Resp(s))
          /\ OnRequestException(HTTPErrorText(s))
    /\ UNCHANGED <<max_retries, retry_delay>>
    /\ RetryOnly

\* The for loop ran out without returning or raising (max_retries = 0).
LoopExhausted ==
    /\ mr_pc = "loop"
    /\ attempt >= max_retries
    /\ mr_result' = ScraperError(<<"Max retries exceeded">>)
    /\ mr_pc' = "done"
    /\ UNCHANGED <<max_retries, retry_delay, attempt, outcomes, sleeps>>
    /\ RetryOnly

RetryInit ==
    /\ max_retries \in 0..MaxRetries
    /\ retry_delay \in 1..MaxRetryDelay
    /\ attempt = 0
    /\ mr_pc = "loop"
    /\ outcomes = <<>>
    /\ sleeps = <<>>
    /\ mr_result = None
    /\ PostcodeIdle
    /\ LookupIdle
    /\ CollectionsIdle
    /\ HandlerIdle
    /\ NoScrapers

RetryNext ==
    \/ AttemptReturns
    \/ AttemptRateLimited
    \/ AttemptRaises
    \/ AttemptHTTPError
    \/ LoopExhausted

SpecRetry == RetryInit /\ [][RetryNext]_vars

\* The call runs on: a request returns or raises (timeout=30), a sleep
\* ends, and the next statement is executed.
SpecRetryFair == SpecRetry /\ WF_vars(RetryNext)

(***************************************************************************)
(* Text: a string is a sequence of one-character strings.                  *)
(***************************************************************************)
\* The letters, as (lower, upper) pairs.
CasePairs ==
    {<<"a", "A">>, <<"b", "B">>, <<"c", "C">>, <<"d", "D">>, <<"e", "E">>,
     <<"f", "F">>, <<"g", "G">>, <<"h", "H">>, <<"i", "I">>, <<"j", "J">>,
     <<"k", "K">>, <<"l", "L">>, <<"m", "M">>, <<"n", "N">>, <<"o", "O">>,
     <<"p", "P">>, <<"q", "Q">>, <<"r", "R">>, <<"s", "S">>, <<"t", "T">>,
     <<"u", "U">>, <<"v", "V">>, <<"w", "W">>, <<"x", "X">>, <<"y", "Y">>,
     <<"z", "Z">>}

UpperLetters == {p[2] : p \in CasePairs}
LowerLetters == {p[1] : p \in CasePairs}
Digits == {"0", "1", "2", "3", "4", "5", "6", "7", "8", "9"}
\* Characters str.strip() removes and the pattern \s accepts.
Whitespace == {" ", "\t", "\n"}

UpperOf == [c \in LowerLetters |-> (CHOOSE p \in CasePairs : p[1] = c)[2]]
LowerOf == [c \in UpperLetters |-> (CHOOSE p \in CasePairs : p[2] = c)[1]]

ToUpper(c) == IF c \in LowerLetters THEN UpperOf[c] ELSE c
ToLower(c) == IF c \in UpperLetters THEN LowerOf[c] ELSE c

\* str.upper(), str.lower()
Upper(s) == [i \in 1..Len(s) |-> ToUpper(s[i])]
Lower(s) == [i \in 1..Len(s) |-> ToLower(s[i])]

\* s.replace(" ", ""): only the space character is removed.
RemoveSpaces(s) == SelectSeq(s, LAMBDA c : c # " ")

(***************************************************************************)
(* UPRNLookupService._normalize_postcode and validate_postcode             *)
(***************************************************************************)
\* A slip that keeps the spaces of the input.
normalize_postcode_KeepsSpaces(p) ==
    LET q == Upper(p) IN
    IF Len(q) >= 5
    THEN SubSeq(q, 1, Len(q) - 3) \o <<" ">> \o SubSeq(q, Len(q) - 2, Len(q))
    ELSE q

\* A slip that never inserts the separator.
normalize_postcode_NoSeparator(p) == Upper(RemoveSpaces(p))

normalize_postcode(p) ==
    LET q == Upper(RemoveSpaces(p)) IN
    IF Len(q) >= 5
    THEN SubSeq(q, 1, Len(q) - 3) \o <<" ">> \o SubSeq(q, Len(q) - 2, Len(q))
    ELSE q

\* [A-Z] under re.IGNORECASE, [0-9], \s
PatLetter(c) == ToUpper(c) \in UpperLetters
PatDigit(c) == c \in Digits
PatSpace(c) == c \in Whitespace

\* re.match(r'^[A-Z]{1,2}[0-9]{1,2}[A-Z]?\s?[0-9][A-Z]{2}$', s, re.IGNORECASE):
\* a letters, b digits, c optional letters, w optional whitespace, one digit,
\* two letters; "$" also matches before one trailing newline (nl).
PostcodePatternMatches(s) ==
    \E a \in 1..2, b \in 1..2, c \in 0..1, w \in 0..1, nl \in 0..1 :
        /\ Len(s) = a + b + c + w + 3 + nl
        /\ \A i \in 1..a : PatLetter(s[i])
        /\ \A i \in (a + 1)..(a + b) : PatDigit(s[i])
        /\ \A i \in (a + b + 1)..(a + b + c) : PatLetter(s[i])
        /\ \A i \in (a + b + c + 1)..(a + b + c + w) : PatSpace(s[i])
        /\ PatDigit(s[a + b + c + w + 1])
        /\ PatLetter(s[a + b + c + w + 2])
        /\ PatLetter(s[a + b + c + w + 3])
        /\ nl = 1 => s[Len(s)] = "\n"

validate_postcode(p) == PostcodePatternMatches(normalize_postcode(p))

(***************************************************************************)
(* UPRNLookupService.lookup                                                *)
(***************************************************************************)
\* Python's None for an attribute the element does not carry.
Absent == <<"<absent>">>

\* needle in hay / pattern.search(hay)
Contains(hay, needle) ==
    \E i \in 1..(Len(hay) - Len(needle) + 1) :
        \A j \in 1..Len(needle) : hay[i + j - 1] = needle[j]

\* str.lstrip(), str.rstrip(), str.strip()
RECURSIVE LStrip(_)
LStrip(s) ==
    IF s # <<>> /\ Head(s) \in Whitespace THEN LStrip(Tail(s)) ELSE s

RECURSIVE RStrip(_)
RStrip(s) ==
    IF s # <<>> /\ s[Len(s)] \in Whitespace
    THEN RStrip(SubSeq(s, 1, Len(s) - 1))
    ELSE s

Strip(s) == RStrip(LStrip(s))

\* str.isdigit()
IsDigit(s) == Len(s) > 0 /\ \A i \in 1..Len(s) : s[i] \in Digits

LookupError(t, d) ==
    [kind |-> "error", type |-> "UPRNLookupError", text |-> t, detail |-> d]

\* The texts the lookup compares against and submits.
Txt ==
    [AddressList |-> <<"a", "d", "d", "r", "e", "s", "s", "L", "i", "s", "t">>,
     Address |-> <<"a", "d", "d", "r", "e", "s", "s">>,
     Uprn |-> <<"u", "p", "r", "n">>,
     Select |-> <<"s", "e", "l", "e", "c", "t">>,
     Choose |-> <<"c", "h", "o", "o", "s", "e">>,
     Please |-> <<"p", "l", "e", "a", "s", "e">>,
     Hidden |-> <<"h", "i", "d", "d", "e", "n">>,
     Postcode |-> <<"p", "o", "s", "t", "c", "o", "d", "e">>,
     PostcodeSubmit |-> <<"p", "o", "s", "t", "c", "o", "d", "e", "S", "u", "b", "m", "i", "t">>,
     Find |-> <<"F", "i", "n", "d">>]

\* The selectors list, tried in order.
Selectors ==
    <<<<"name", Txt.AddressList>>,
      <<"name", Txt.Address>>,
      <<"name", Txt.Uprn>>,
      <<"id", Txt.AddressList>>,
      <<"id", Txt.Address>>>>

Attr(sel, a) == IF a = "name" THEN sel.name ELSE sel.id

\* soup.find('select', ...): the first select in document order among
\* those, given by their indices, that satisfy the test; 0 for None.
FindFirst(matches) ==
    IF matches = {} THEN 0
    ELSE CHOOSE i \in matches : \A j \in matches : i <= j

\* The selects of the page whose attribute a is exactly v.
WithAttr(pg, a, v) == {i \in 1..Len(pg) : Attr(pg[i], a) = v}

\* for attr, value in selectors: ... if address_select: break
RECURSIVE BySelectors(_, _)
BySelectors(pg, k) ==
    IF k > Len(Selectors) THEN 0
    ELSE LET found == FindFirst(WithAttr(pg, Selectors[k][1], Selectors[k][2])) IN
         IF found # 0 THEN found ELSE BySelectors(pg, k + 1)

\* attrs={attr: re.compile(r'address', re.IGNORECASE)}
MatchesAddress(sel, a) ==
    Attr(sel, a) # Absent /\ Contains(Lower(Attr(sel, a)), Txt.Address)

\* The selects of the page whose attribute a contains "address".
WithAddressIn(pg, a) == {i \in 1..Len(pg) : MatchesAddress(pg[i], a)}

\* A slip: the last fallback taken whenever the page has any select.
FindAddressSelect_AnySelect(pg) ==
    LET exact == BySelectors(pg, 1)
        byName == FindFirst(WithAddressIn(pg, "name"))
        byId == FindFirst(WithAddressIn(pg, "id"))
    IN  IF exact # 0 THEN exact
        ELSE IF byName # 0 THEN byName
        ELSE IF byId # 0 THEN byId
        ELSE IF Len(pg) >= 1 THEN 1
        ELSE 0

\* Lines 140-167: the selectors, the two pattern searches, the only select.
FindAddressSelect(pg) ==
    LET exact == BySelectors(pg, 1)
        byName == FindFirst(WithAddressIn(pg, "name"))
        byId == FindFirst(WithAddressIn(pg, "id"))
    IN  IF exact # 0 THEN exact
        ELSE IF byName # 0 THEN byName
        ELSE IF byId # 0 THEN byId
        ELSE IF Len(pg) = 1 THEN 1
        ELSE 0

\* option.get('value', '').strip()
OptionUprn(o) == IF o.value = Absent THEN <<>> ELSE Strip(o.value)

\* option.get_text(strip=True)
OptionText(o) == Strip(o.text)

\* any(word in address_text.lower() for word in ['select', 'choose', 'please'])
PlaceholderWords ==
    {Txt.Select,
     Txt.Choose,
     Txt.Please}

HasPlaceholderWord(t) == \E w \in PlaceholderWords : Contains(Lower(t), w)

\* A slip: the new address is put in front of the list.
RECURSIVE ExtractAddresses_Prepends(_, _, _)
ExtractAddresses_Prepends(opts, k, acc) ==
    IF k > Len(opts) THEN acc
    ELSE LET uprn == OptionUprn(opts[k])
             address_text == OptionText(opts[k])
         IN  IF uprn = <<>> \/ uprn \in {<<>>, <<"0">>, <<"-", "1">>}
             THEN ExtractAddresses_Prepends(opts, k + 1, acc)
             ELSE IF HasPlaceholderWord(address_text)
             THEN ExtractAddresses_Prepends(opts, k + 1, acc)
             ELSE IF IsDigit(uprn) /\ Len(uprn) >= 8
             THEN ExtractAddresses_Prepends(opts, k + 1,
                      <<[uprn |-> uprn, address |-> address_text]>> \o acc)
             ELSE ExtractAddresses_Prepends(opts, k + 1, acc)

\* for option in options: ... addresses.append({...})
RECURSIVE ExtractAddresses(_, _, _)
ExtractAddresses(opts, k, acc) ==
    IF k > Len(opts) THEN acc
    ELSE LET uprn == OptionUprn(opts[k])
             address_text == OptionText(opts[k])
         IN  IF uprn = <<>> \/ uprn \in {<<>>, <<"0">>, <<"-", "1">>}
             THEN ExtractAddresses(opts, k + 1, acc)
             ELSE IF HasPlaceholderWord(address_text)
             THEN ExtractAddresses(opts, k + 1, acc)
             ELSE IF IsDigit(uprn) /\ Len(uprn) >= 8
             THEN ExtractAddresses(opts, k + 1,
                      Append(acc, [uprn |-> uprn, address |-> address_text]))
             ELSE ExtractAddresses(opts, k + 1, acc)

\* form_data[k] = v
Put(d, k, v) == [x \in (DOMAIN d) \cup {k} |-> IF x = k THEN v ELSE d[x]]

\* A slip: every input of the form is harvested, whatever its type.
RECURSIVE HiddenFields_AllInputs(_, _, _)
HiddenFields_AllInputs(inputs, k, acc) ==
    IF k > Len(inputs) THEN acc
    ELSE LET name == inputs[k].name
             value == IF inputs[k].value = Absent THEN <<>> ELSE inputs[k].value
         IN  IF name # Absent /\ name # <<>>
             THEN HiddenFields_AllInputs(inputs, k + 1, Put(acc, name, value))
             ELSE HiddenFields_AllInputs(inputs, k + 1, acc)

\* for input_field in form.find_all('input', type='hidden'):
\*     if name: form_data[name] = value
RECURSIVE HiddenFields(_, _, _)
HiddenFields(inputs, k, acc) ==
    IF k > Len(inputs) THEN acc
    ELSE LET name == inputs[k].name
             value == IF inputs[k].value = Absent THEN <<>> ELSE inputs[k].value
         IN  IF inputs[k].type = Txt.Hidden /\ name # Absent /\ name # <<>>
             THEN HiddenFields(inputs, k + 1, Put(acc, name, value))
             ELSE HiddenFields(inputs, k + 1, acc)

\* Lines 111-124: the hidden fields of the form, if any, then the postcode
\* and the submit button.
FormData(f, npc) ==
    LET harvested == IF f.found THEN HiddenFields(f.inputs, 1, EmptyDict)
                     ELSE EmptyDict
    IN  Put(Put(harvested, Txt.Postcode, npc), Txt.PostcodeSubmit, Txt.Find)

\* The input elements of the search form: type, name and value attributes.
SearchFormInputs ==
    <<[type |-> Txt.Hidden, name |-> <<"_", "_", "V", "S">>, value |-> <<"a", "b", "c">>],
      [type |-> <<"t", "e", "x", "t">>, name |-> <<"q">>, value |-> <<"z", "z">>],
      [type |-> Txt.Hidden, name |-> Absent, value |-> <<"x">>],
      [type |-> Txt.Hidden, name |-> Txt.Postcode, value |-> <<"O", "L", "D">>],
      [type |-> Txt.Hidden, name |-> <<"_", "_", "E", "V">>, value |-> Absent],
      [type |-> Txt.Hidden, name |-> <<"_", "_", "V", "S">>, value |-> <<"d", "e", "f">>]>>

\* What soup.find('form') may find on the search page.
FormKinds == {NoForm, [found |-> TRUE, inputs |-> SearchFormInputs]}

\* The postcodes lookup is called with.
LookupPostcodes ==
    {<<"S", "N", "1", "5", "D", "X">>,
     <<"Z", "Z", "9", "9">>,
     <<"S", "N", "1", "\t", "5", "D", "X">>,
     <<>>}

\* The select elements a response page may hold: name and id attributes.
SelectKinds ==
    {[name |-> Txt.AddressList, id |-> Absent],
     [name |-> Txt.Address, id |-> Absent],
     [name |-> Txt.Uprn, id |-> Absent],
     [name |-> Absent, id |-> Txt.AddressList],
     [name |-> Absent, id |-> Txt.Address],
     [name |-> <<"h", "o", "m", "e", "A", "d", "d", "r", "e", "s", "s">>, id |-> Absent],
     [name |-> Absent, id |-> <<"A", "d", "d", "r", "e", "s", "s", "B", "o", "x">>],
     [name |-> <<"s", "t", "r", "e", "e", "t">>, id |-> <<"r", "o", "a", "d">>]}

Pages == UNION {[1..k -> SelectKinds] : k \in 0..MaxSelects}

\* The option elements a select may hold: value attribute and text.
OptionKinds ==
    {[value |-> <<"0">>,
      text |-> <<"S", "e", "l", "e", "c", "t", " ", "a", "n", " ", "a", "d", "d",
                "r", "e", "s", "s">>],
     [value |-> <<"1", "0", "0", "1", "2", "1", "1", "4", "7", "4", "9", "0">>,
      text |-> <<"1", " ", "N", "y", "l", "a", "n", "d", " ", "R", "o", "a", "d",
                ",", " ", "S", "W", "I", "N", "D", "O", "N", ",", " ", "S", "N",
                "1", " ", "5", "D", "X">>],
     [value |-> <<" ", "1", "0", "0", "0", "8", "5", "4", "1", "\n">>,
      text |-> <<" ", "2", " ", "N", "y", "l", "a", "n", "d", " ", "R", "o", "a",
                "d", " ">>],
     [value |-> <<"1", "2", "3", "4", "5", "6", "7">>,
      text |-> <<"3", " ", "N", "y", "l", "a", "n", "d", " ", "R", "o", "a", "d">>],
     [value |-> <<"1", "0", "0", "1", "2", "1", "1", "4", "7", "4", "9", "1">>,
      text |-> <<"P", "l", "e", "a", "s", "e", " ", "c", "h", "o", "o", "s", "e">>],
     [value |-> Absent,
      text |-> <<"4", " ", "N", "y", "l", "a", "n", "d", " ", "R", "o", "a", "d">>],
     [value |-> <<"1", "0", "0", "1", "2", "1", "1", "4", "7", "4", "9", "X">>,
      text |-> <<"5", " ", "N", "y", "l", "a", "n", "d", " ", "R", "o", "a", "d">>]}

OptionLists == UNION {[1..k -> OptionKinds] : k \in 0..MaxOptions}

\* What a request on the session may come to.
RequestOutcomes ==
    {Resp(s) : s \in Statuses} \cup {Exc(t) : t \in TransportErrors}

\* The request raises inside the try block: session.get/post raised, or
\* raise_for_status did.
RequestRaises(o) ==
    o.kind = "exception" \/ (o.kind = "response" /\ RaisesForStatus(o.status))

\* str(e) of that exception
RaisedText(o) ==
    IF o.kind = "exception" THEN <<o.text>> ELSE HTTPErrorText(o.status)

LookupInit ==
    /\ lk_pc = "start"
    /\ lk_postcode \in LookupPostcodes
    /\ normalized_postcode = <<>>
    /\ lk_requests = <<>>
    /\ form = NoForm
    /\ form_data = EmptyDict
    /\ page = <<>>
    /\ address_select = 0
    /\ options = <<>>
    /\ addresses = <<>>
    /\ lk_result = None
    /\ RetryIdle
    /\ PostcodeIdle
    /\ CollectionsIdle
    /\ HandlerIdle
    /\ NoScrapers

\* A slip: the search page is fetched before the postcode is validated.
LookupRejects_AfterGet ==
    /\ lk_pc = "start"
    /\ ~validate_postcode(lk_postcode)
    /\ lk_requests' = Append(lk_requests, [method |-> "GET", outcome |-> Resp(200)])
    /\ lk_result' = LookupError("Invalid postcode format: ", lk_postcode)
    /\ lk_pc' = "done"
    /\ UNCHANGED <<lk_postcode, normalized_postcode, form, form_data, page,
                   address_select, options, addresses>>
    /\ LookupOnly

\* if not self.validate_postcode(postcode): raise UPRNLookupError(...)
LookupRejects ==
    /\ lk_pc = "start"
    /\ ~validate_postcode(lk_postcode)
    /\ lk_result' = LookupError("Invalid postcode format: ", lk_postcode)
    /\ lk_pc' = "done"
    /\ UNCHANGED <<lk_postcode, normalized_postcode, lk_requests, form,
                   form_data, page, address_select, options, addresses>>
    /\ LookupOnly

\* normalized_postcode = self._normalize_postcode(postcode)
LookupAccepts ==
    /\ lk_pc = "start"
    /\ validate_postcode(lk_postcode)
    /\ normalized_postcode' = normalize_postcode(lk_postcode)
    /\ lk_pc' = "get"
    /\ UNCHANGED <<lk_postcode, lk_requests, form, form_data, page,
                   address_select, options, addresses, lk_result>>
    /\ LookupOnly

\* except requests.exceptions.RequestException as e: raise UPRNLookupError(...)
OnLookupRequestException(o) ==
    /\ lk_result' = LookupError("Failed to connect to Swindon Council website: ",
                                RaisedText(o))
    /\ lk_pc' = "done"

\* Step 1: the GET of the search page succeeds; form_data is built from the
\* form of the page.
LookupGetOk ==
    /\ lk_pc = "get"
    /\ \E o \in RequestOutcomes :
          /\ ~RequestRaises(o)
          /\ lk_requests' = Append(lk_requests, [method |-> "GET", outcome |-> o])
    /\ \E f \in FormKinds :
          /\ form' = f
          /\ form_data' = FormData(f, normalized_postcode)
    /\ lk_pc' = "post"
    /\ UNCHANGED <<lk_postcode, normalized_postcode, page, address_select,
                   options, addresses, lk_result>>
    /\ LookupOnly

\* Step 1: the GET raises, or raise_for_status does.
LookupGetFails ==
    /\ lk_pc = "get"
    /\ \E o \in RequestOutcomes :
          /\ RequestRaises(o)
          /\ lk_requests' = Append(lk_requests, [method |-> "GET", outcome |-> o])
          /\ OnLookupRequestException(o)
    /\ UNCHANGED <<lk_postcode, normalized_postcode, form, form_data, page,
                   address_select, options, addresses>>
    /\ LookupOnly

\* Step 2: the POST raises, or raise_for_status does.
LookupPostFails ==
    /\ lk_pc = "post"
    /\ \E o \in RequestOutcomes :
          /\ RequestRaises(o)
          /\ lk_requests' = Append(lk_requests, [method |-> "POST", data |-> form_data,
                                             outcome |-> o])
          /\ OnLookupRequestException(o)
    /\ UNCHANGED <<lk_postcode, normalized_postcode, form, form_data, page,
                   address_select, options, addresses>>
    /\ LookupOnly

\* Steps 2-4: the POST succeeds; no select is chosen on the page it returns.
LookupNoContainer ==
    /\ lk_pc = "post"
    /\ \E o \in RequestOutcomes :
          /\ ~RequestRaises(o)
          /\ lk_requests' = Append(lk_requests, [method |-> "POST", data |-> form_data,
                                             outcome |-> o])
    /\ \E pg \in Pages :
          /\ FindAddressSelect(pg) = 0
          /\ page' = pg
    /\ address_select' = 0
    /\ lk_result' = LookupError("No addresses found for postcode: ",
                                normalized_postcode)
    /\ lk_pc' = "done"
    /\ UNCHANGED <<lk_postcode, normalized_postcode, form, form_data, options,
                   addresses>>
    /\ LookupOnly

\* Steps 2-4: the POST succeeds and a select is chosen; its options (those
\* of the other selects are never read) are filtered into the result.
LookupExtracts ==
    /\ lk_pc = "post"
    /\ \E o \in RequestOutcomes :
          /\ ~RequestRaises(o)
          /\ lk_requests' = Append(lk_requests, [method |-> "POST", data |-> form_data,
                                             outcome |-> o])
    /\ \E opts \in OptionLists :
          /\ options' = opts
          /\ addresses' = ExtractAddresses(opts, 1, <<>>)
    /\ \E pg \in Pages :
          /\ page' = pg
          /\ address_select' = FindAddressSelect(pg)
          /\ address_select' # 0
    /\ lk_result' =
          IF addresses' = <<>>
          THEN LookupError("No valid addresses found for postcode: ",
                           normalized_postcode)
          ELSE [kind |-> "return", addresses |-> addresses']
    /\ lk_pc' = "done"
    /\ UNCHANGED <<lk_postcode, normalized_postcode, form, form_data>>
    /\ LookupOnly

LookupNext ==
    \/ LookupRejects
    \/ LookupAccepts
    \/ LookupGetOk
    \/ LookupGetFails
    \/ LookupPostFails
    \/ LookupNoContainer
    \/ LookupExtracts

SpecLookup == LookupInit /\ [][LookupNext]_vars

(***************************************************************************)
(* SwindonScraper.get_collections                                          *)
(***************************************************************************)
\* SwindonScraper() as the handlers construct it.
DefaultMaxRetries == 3
DefaultRetryDelay == 2

\* The category labels of the tables, one with whitespace around it and
\* one the tables do not know.
Label ==
    [RubbishBin |->
        <<"R", "u", "b", "b", "i", "s", "h", " ", "b", "i", "n">>,
     RubbishFood |->
        <<"R", "u", "b", "b", "i", "s", "h", " ", "b", "i", "n", " ", "a",
          "n", "d", " ", "f", "o", "o", "d", " ", "w", "a", "s", "t", "e">>,
     RecyclingBoxes |->
        <<"R", "e", "c", "y", "c", "l", "i", "n", "g", " ", "b", "o", "x",
          "e", "s">>,
     RecyclingFood |->
        <<"R", "e", "c", "y", "c", "l", "i", "n", "g", " ", "a", "n", "d",
          " ", "f", "o", "o", "d", " ", "w", "a", "s", "t", "e">>,
     GardenWasteBin |->
        <<"G", "a", "r", "d", "e", "n", " ", "w", "a", "s", "t", "e", " ",
          "b", "i", "n">>,
     GardenWaste |->
        <<"G", "a", "r", "d", "e", "n", " ", "w", "a", "s", "t", "e">>,
     Plastics |->
        <<"P", "l", "a", "s", "t", "i", "c", "s">>,
     PaddedRecyclingBoxes |->
        <<" ", "R", "e", "c", "y", "c", "l", "i", "n", "g", " ", "b", "o",
          "x", "e", "s", "\n">>,
     FoodCaddy |->
        <<"F", "o", "o", "d", " ", "c", "a", "d", "d", "y">>]

\* WASTE_TYPE_ICONS, WASTE_TYPE_COLORS: (key, value) in the order of the dict
WASTE_TYPE_ICONS ==
    <<<<Label.RubbishBin, "trash-can">>,
      <<Label.RubbishFood, "trash-can">>,
      <<Label.RecyclingBoxes, "recycle">>,
      <<Label.RecyclingFood, "recycle">>,
      <<Label.GardenWasteBin, "leaf">>,
      <<Label.GardenWaste, "leaf">>,
      <<Label.Plastics, "bottle">>>>

WASTE_TYPE_COLORS ==
    <<<<Label.RubbishBin, "rubbish">>,
      <<Label.RubbishFood, "rubbish">>,
      <<Label.RecyclingBoxes, "recycling">>,
      <<Label.RecyclingFood, "recycling">>,
      <<Label.GardenWasteBin, "garden">>,
      <<Label.GardenWaste, "garden">>,
      <<Label.Plastics, "plastics">>>>

\* BIN_ICON_IMAGES: (icon class, image URL under BASE_URL) in the order of
\* the dict
BIN_ICON_IMAGES ==
    <<<<"black-food-bin-icon",
        "/images/black_wheelie_food_bin_swindon.png">>,
      <<"recycle-blue-weighted-food-icon",
        "/images/recycling_blue_food_swindon.png">>,
      <<"recycle-blue-weighted-icon",
        "/images/recycling_blue_weighted_swindon.png">>,
      <<"rubbish-blue-bag-food-icon",
        "/images/rubbish_blue_bag_food_swindon.png">>,
      <<"garden-bin-icon",
        "/images/green_waste_wheelie_swindon.png">>,
      <<"garden-bag-icon",
        "/images/plastic_bag_green_swindon.png">>,
      <<"black-bin-icon",
        "/images/black_wheelie_swindon.png">>,
      <<"refuse-communal-bin-icon",
        "/images/communal_bin_swindon.png">>,
      <<"recycling-communal-bin-icon",
        "/images/communal_recyling_swindon.png">>>>

\* bin_image_url = None
NoImage == "None"

\* A slip: a label the table does not know gets no icon.
DictGet_NoDefault(table, key, default) ==
    IF \E k \in 1..Len(table) : table[k][1] = key
    THEN table[CHOOSE k \in 1..Len(table) : table[k][1] = key][2]
    ELSE ""

\* dict.get(key, default)
DictGet(table, key, default) ==
    IF \E k \in 1..Len(table) : table[k][1] = key
    THEN table[CHOOSE k \in 1..Len(table) : table[k][1] = key][2]
    ELSE default

\* for icon_class in self.BIN_ICON_IMAGES.keys(): if icon_class in classes
BinImage(bin_icons) ==
    LET known == {k \in 1..Len(BIN_ICON_IMAGES) :
                     BIN_ICON_IMAGES[k][1] \in bin_icons.classes}
    IN  IF ~bin_icons.found \/ known = {} THEN NoImage
        ELSE BIN_ICON_IMAGES[CHOOSE k \in known : \A j \in known : k <= j][2]

\* %A and %B: the names of the locale, compared without regard to case.
WeekdayNames ==
    {<<"m", "o", "n", "d", "a", "y">>,
     <<"t", "u", "e", "s", "d", "a", "y">>,
     <<"w", "e", "d", "n", "e", "s", "d", "a", "y">>,
     <<"t", "h", "u", "r", "s", "d", "a", "y">>,
     <<"f", "r", "i", "d", "a", "y">>,
     <<"s", "a", "t", "u", "r", "d", "a", "y">>,
     <<"s", "u", "n", "d", "a", "y">>}

MonthNames ==
    <<<<"j", "a", "n", "u", "a", "r", "y">>,
      <<"f", "e", "b", "r", "u", "a", "r", "y">>,
      <<"m", "a", "r", "c", "h">>,
      <<"a", "p", "r", "i", "l">>,
      <<"m", "a", "y">>,
      <<"j", "u", "n", "e">>,
      <<"j", "u", "l", "y">>,
      <<"a", "u", "g", "u", "s", "t">>,
      <<"s", "e", "p", "t", "e", "m", "b", "e", "r">>,
      <<"o", "c", "t", "o", "b", "e", "r">>,
      <<"n", "o", "v", "e", "m", "b", "e", "r">>,
      <<"d", "e", "c", "e", "m", "b", "e", "r">>>>

DigitChars == <<"0", "1", "2", "3", "4", "5", "6", "7", "8", "9">>

DigitValue(c) == (CHOOSE n \in 1..10 : DigitChars[n] = c) - 1

\* int(s) of a text of digits
RECURSIVE Number(_)
Number(s) ==
    IF s = <<>> THEN 0
    ELSE 10 * Number(SubSeq(s, 1, Len(s) - 1)) + DigitValue(s[Len(s)])

\* The words of a text: whitespace in a format matches \s+.
RECURSIVE SplitWords(_, _, _)
SplitWords(s, words, word) ==
    IF s = <<>>
    THEN IF word = <<>> THEN words ELSE Append(words, word)
    ELSE IF Head(s) \in Whitespace
    THEN SplitWords(Tail(s),
                    IF word = <<>> THEN words ELSE Append(words, word), <<>>)
    ELSE SplitWords(Tail(s), words, Append(word, Head(s)))

\* The days of month m of year y.
DaysInMonth(y, m) ==
    LET leap == (y % 4 = 0 /\ y % 100 # 0) \/ y % 400 = 0 IN
    IF m = 2 THEN (IF leap THEN 29 ELSE 28)
    ELSE IF m \in {4, 6, 9, 11} THEN 30
    ELSE 31

\* datetime.strptime(text, fmt).date(); NoDate stands for ValueError. The
\* whole text has to match, and the day has to exist in the month.
\*   %A,  a weekday name followed by the comma
\*   %d   1..31, one or two digits
\*   %B   a month name
\*   %Y   four digits; the year 0 is no year of a date
Strptime(text, fmt) ==
    LET w == SplitWords(text, <<>>, <<>>)
        o == IF fmt = "%A, %d %B %Y" THEN 1 ELSE 0
        WeekdayField(x) ==
            /\ Len(x) >= 2
            /\ x[Len(x)] = ","
            /\ Lower(SubSeq(x, 1, Len(x) - 1)) \in WeekdayNames
        DayField(x) ==
            IF Len(x) \in 1..2 /\ IsDigit(x) /\ Number(x) \in 1..31
            THEN Number(x) ELSE 0
        MonthField(x) ==
            IF \E k \in 1..12 : MonthNames[k] = Lower(x)
            THEN CHOOSE k \in 1..12 : MonthNames[k] = Lower(x)
            ELSE 0
        YearField(x) == IF Len(x) = 4 /\ IsDigit(x) THEN Number(x) ELSE 0
    IN  IF text # Strip(text) \/ Len(w) # o + 3 THEN NoDate
        ELSE IF o = 1 /\ ~WeekdayField(w[1]) THEN NoDate
        ELSE LET d == DayField(w[o + 1])
                 mo == MonthField(w[o + 2])
                 y == YearField(w[o + 3])
             IN  IF d = 0 \/ mo = 0 \/ y = 0 THEN NoDate
                 ELSE IF d > DaysInMonth(y, mo) THEN NoDate
                 ELSE Date(y, mo, d)

\* A slip: the second format is never tried.
ParseDateText_FirstFormatOnly(date_text) == Strptime(date_text, "%A, %d %B %Y")

\* try: strptime(date_text, "%A, %d %B %Y")
\* except ValueError: try: strptime(date_text, "%d %B %Y")
\*                    except ValueError: logger.warning(...)
ParseDateText(date_text) ==
    LET first == Strptime(date_text, "%A, %d %B %Y") IN
    IF first # NoDate THEN first ELSE Strptime(date_text, "%d %B %Y")

\* The dates a list of date elements appends to all_dates, in order.
RECURSIVE ParsedDates(_, _, _)
ParsedDates(spans, k, acc) ==
    IF k > Len(spans) THEN acc
    ELSE LET collection_date == ParseDateText(Strip(spans[k])) IN
         ParsedDates(spans, k + 1,
                     IF collection_date = NoDate THEN acc
                     ELSE Append(acc, collection_date))

\* A slip: the future dates are not read.
AllDates_NextOnly(section) ==
    IF section.next.found
    THEN ParsedDates(<<section.next.text>>, 1, <<>>) ELSE <<>>

\* all_dates of one section: the next date, then the future dates
AllDates(section) ==
    LET next == IF section.next.found
                THEN ParsedDates(<<section.next.text>>, 1, <<>>) ELSE <<>>
    IN  IF section.future.found
        THEN ParsedDates(section.future.spans, 1, next)
        ELSE next

\* date.isoformat(): YYYY-MM-DD, each part zero-padded
isoformat(d) ==
    LET Pad2(n) ==
            <<DigitChars[((n \div 10) % 10) + 1], DigitChars[(n % 10) + 1]>>
    IN  Pad2(d.year \div 100) \o Pad2(d.year % 100) \o <<"-">>
            \o Pad2(d.month) \o <<"-">> \o Pad2(d.day)

RECURSIVE DaysBeforeMonth(_, _)
DaysBeforeMonth(y, m) ==
    IF m = 1 THEN 0 ELSE DaysBeforeMonth(y, m - 1) + DaysInMonth(y, m - 1)

\* date.toordinal()
Ordinal(d) ==
    LET y == d.year - 1 IN
    365 * y + (y \div 4) - (y \div 100) + (y \div 400)
        + DaysBeforeMonth(d.year, d.month) + d.day

\* A slip: a date before today counts as today.
DaysUntil_Clamped(d, t) ==
    IF Ordinal(d) < Ordinal(t) THEN 0 ELSE Ordinal(d) - Ordinal(t)

\* days_until = (all_dates[0] - today).days
DaysUntil(d, t) == Ordinal(d) - Ordinal(t)

\* The body of "for section in bin_sections": the entry the section appends
\* to collections, if any.
SectionEntry(section, t) ==
    IF ~section.h3.found THEN <<>>
    ELSE LET waste_type == Strip(section.h3.text)
             all_dates == AllDates(section)
         IN  IF all_dates = <<>> THEN <<>>
             ELSE <<[date |-> isoformat(all_dates[1]),
                     dates |-> [i \in 1..Len(all_dates) |->
                                   isoformat(all_dates[i])],
                     type |-> waste_type,
                     icon |-> DictGet(WASTE_TYPE_ICONS, waste_type, "trash-can"),
                     color |-> DictGet(WASTE_TYPE_COLORS, waste_type, ""),
                     days_until |-> DaysUntil(all_dates[1], t),
                     bin_image |-> BinImage(section.bin_icons)]>>

RECURSIVE SectionLoop(_, _, _, _)
SectionLoop(sections, k, t, acc) ==
    IF k > Len(sections) THEN acc
    ELSE SectionLoop(sections, k + 1, t, acc \o SectionEntry(sections[k], t))

\* a < b for str: the first differing character decides by its code point
\* (45 for "-", 48.. for the digits), a proper prefix is smaller
RECURSIVE StrLess(_, _)
StrLess(a, b) ==
    LET CodePoint(c) == IF c = "-" THEN 45 ELSE 48 + DigitValue(c) IN
    IF b = <<>> THEN FALSE
    ELSE IF a = <<>> THEN TRUE
    ELSE IF Head(a) = Head(b) THEN StrLess(Tail(a), Tail(b))
    ELSE CodePoint(Head(a)) < CodePoint(Head(b))

\* list.sort is stable: an entry goes behind the entries whose key is not
\* greater than its own.
RECURSIVE InsertByDate(_, _)
InsertByDate(sorted, e) ==
    IF sorted = <<>> THEN <<e>>
    ELSE IF StrLess(e.date, Head(sorted).date) THEN <<e>> \o sorted
    ELSE <<Head(sorted)>> \o InsertByDate(Tail(sorted), e)

\* collections.sort(key=lambda x: x['date'])
RECURSIVE SortByDate(_, _, _)
SortByDate(list, k, acc) ==
    IF k > Len(list) THEN acc
    ELSE SortByDate(list, k + 1, InsertByDate(acc, list[k]))

\* The date texts of the pages.
DateText ==
    [Mon03Mar2025 |->
        <<"M", "o", "n", "d", "a", "y", ",", " ", "0", "3", " ", "M", "a",
          "r", "c", "h", " ", "2", "0", "2", "5">>,
     Padded3Mar2025 |->
        <<" ", "3", " ", "M", "a", "r", "c", "h", " ", "2", "0", "2", "5",
          " ">>,
     Plain10Mar2025 |->
        <<"1", "0", " ", "M", "a", "r", "c", "h", " ", "2", "0", "2", "5">>,
     Mon17Mar2025 |->
        <<"M", "o", "n", "d", "a", "y", ",", " ", " ", "1", "7", " ", "M",
          "a", "r", "c", "h", " ", "2", "0", "2", "5">>,
     Fri28Feb2025 |->
        <<"f", "r", "i", "d", "a", "y", ",", " ", "2", "8", " ", "f", "e",
          "b", "r", "u", "a", "r", "y", " ", "2", "0", "2", "5">>,
     Plain31Dec2024 |->
        <<"3", "1", " ", "D", "e", "c", "e", "m", "b", "e", "r", " ", "2",
          "0", "2", "4">>,
     Slashes |->
        <<"0", "3", "/", "0", "3", "/", "2", "0", "2", "5">>,
     Plain30Feb2025 |->
        <<"3", "0", " ", "F", "e", "b", "r", "u", "a", "r", "y", " ", "2",
          "0", "2", "5">>,
     NoComma |->
        <<"T", "u", "e", "s", "d", "a", "y", " ", "3", "1", " ", "D", "e",
          "c", "e", "m", "b", "e", "r", " ", "2", "0", "2", "4">>,
     TBC |->
        <<"T", "B", "C">>]

\* The collection blocks a response may hold: the h3 heading, the bin-icons
\* div with its classes, the nextCollectionDate span and the collection-next
\* div with its even/odd spans.
SectionKinds ==
    {[h3 |-> [found |-> TRUE, text |-> Label.GardenWasteBin],
      bin_icons |-> [found |-> TRUE, classes |-> {"bin-icons", "garden-bin-icon"}],
      next |-> [found |-> TRUE, text |-> DateText.Mon03Mar2025],
      future |-> [found |-> FALSE, spans |-> <<>>]],
     [h3 |-> [found |-> TRUE, text |-> Label.PaddedRecyclingBoxes],
      bin_icons |-> [found |-> FALSE, classes |-> {}],
      next |-> [found |-> TRUE, text |-> DateText.Plain10Mar2025],
      future |-> [found |-> TRUE, spans |-> <<DateText.Mon17Mar2025, DateText.TBC>>]],
     [h3 |-> [found |-> TRUE, text |-> Label.RubbishBin],
      bin_icons |-> [found |-> TRUE, classes |-> {"bin-icons", "new-bin-icon"}],
      next |-> [found |-> TRUE, text |-> DateText.Slashes],
      future |-> [found |-> FALSE, spans |-> <<>>]],
     [h3 |-> [found |-> TRUE, text |-> Label.FoodCaddy],
      bin_icons |-> [found |-> TRUE, classes |-> {"bin-icons", "black-bin-icon", "garden-bag-icon"}],
      next |-> [found |-> TRUE, text |-> DateText.Fri28Feb2025],
      future |-> [found |-> FALSE, spans |-> <<>>]],
     [h3 |-> [found |-> FALSE, text |-> <<>>],
      bin_icons |-> [found |-> TRUE, classes |-> {"bin-icons", "black-bin-icon"}],
      next |-> [found |-> TRUE, text |-> DateText.Mon03Mar2025],
      future |-> [found |-> FALSE, spans |-> <<>>]],
     [h3 |-> [found |-> TRUE, text |-> Label.Plastics],
      bin_icons |-> [found |-> FALSE, classes |-> {}],
      next |-> [found |-> TRUE, text |-> DateText.Plain30Feb2025],
      future |-> [found |-> TRUE, spans |-> <<DateText.NoComma, DateText.Plain31Dec2024, DateText.Plain10Mar2025>>]],
     [h3 |-> [found |-> TRUE, text |-> Label.GardenWasteBin],
      bin_icons |-> [found |-> FALSE, classes |-> {}],
      next |-> [found |-> TRUE, text |-> DateText.Padded3Mar2025],
      future |-> [found |-> TRUE, spans |-> <<>>]],
     [h3 |-> [found |-> TRUE, text |-> Label.GardenWaste],
      bin_icons |-> [found |-> FALSE, classes |-> {}],
      next |-> [found |-> FALSE, text |-> <<>>],
      future |-> [found |-> FALSE, spans |-> <<>>]]}

SectionLists == UNION {[1..k -> SectionKinds] : k \in 0..MaxSections}

\* The days get_collections is called on.
Todays == {Date(2025, 3, 3), Date(2025, 2, 28)}

CollectionsInit ==
    /\ max_retries \in 0..DefaultMaxRetries
    /\ retry_delay = DefaultRetryDelay
    /\ attempt = 0
    /\ mr_pc = "loop"
    /\ outcomes = <<>>
    /\ sleeps = <<>>
    /\ mr_result = None
    /\ gc_pc = "fetch"
    /\ soup = "none"
    /\ today = NoDate
    /\ bin_sections = <<>>
    /\ collections = <<>>
    /\ gc_result = None
    /\ PostcodeIdle
    /\ LookupIdle
    /\ HandlerIdle
    /\ NoScrapers

\* self._make_request(...) has returned a response
Fetched == gc_pc = "fetch" /\ mr_pc = "done" /\ mr_result.kind = "response"

\* A slip: the exception leaves get_collections as it came.
OnGetCollectionsException_Unwrapped(text) ==
    /\ gc_result' = [kind |-> "error", type |-> "Exception", msg |-> text]
    /\ gc_pc' = "done"

\* except Exception as e: raise SwindonScraperError(f"Failed to get
\* collections: {str(e)}")
OnGetCollectionsException(text) ==
    /\ gc_result' = ScraperError(<<"Failed to get collections: ">> \o text)
    /\ gc_pc' = "done"

\* _make_request raised SwindonScraperError.
GetCollectionsFetchFails ==
    /\ gc_pc = "fetch"
    /\ mr_pc = "done"
    /\ mr_result.kind = "error"
    /\ OnGetCollectionsException(mr_result.msg)
    /\ UNCHANGED <<soup, today, bin_sections, collections>>
    /\ CollectionsOnly

\* BeautifulSoup(response.content, 'html.parser') raised: the parser rejected
\* the content.
GetCollectionsUnparseable ==
    /\ Fetched
    /\ soup' = "rejected"
    /\ OnGetCollectionsException(<<"ParserRejectedMarkup">>)
    /\ UNCHANGED <<today, bin_sections, collections>>
    /\ CollectionsOnly

\* A slip: a page without sections is an error.
GetCollectionsNoSections_Raises ==
    /\ Fetched
    /\ soup' = "parsed"
    /\ today' \in Todays
    /\ bin_sections' = <<>>
    /\ gc_result' = ScraperError(<<"No collection sections found">>)
    /\ gc_pc' = "done"
    /\ UNCHANGED collections
    /\ CollectionsOnly

\* if not bin_sections: return []
GetCollectionsNoSections ==
    /\ Fetched
    /\ soup' = "parsed"
    /\ today' \in Todays
    /\ bin_sections' = <<>>
    /\ gc_result' = [kind |-> "return", collections |-> <<>>]
    /\ gc_pc' = "done"
    /\ UNCHANGED collections
    /\ CollectionsOnly

\* The section loop, the sort and the return.
GetCollectionsExtracts ==
    /\ Fetched
    /\ soup' = "parsed"
    /\ \E t \in Todays, sections \in SectionLists :
          /\ sections # <<>>
          /\ today' = t
          /\ bin_sections' = sections
          /\ collections' = SortByDate(SectionLoop(sections, 1, t, <<>>), 1, <<>>)
    /\ gc_result' = [kind |-> "return", collections |-> collections']
    /\ gc_pc' = "done"
    /\ CollectionsOnly

CollectionsNext ==
    \/ AttemptReturns
    \/ AttemptRateLimited
    \/ AttemptRaises
    \/ AttemptHTTPError
    \/ LoopExhausted
    \/ GetCollectionsFetchFails
    \/ GetCollectionsUnparseable
    \/ GetCollectionsNoSections
    \/ GetCollectionsExtracts

SpecCollections == CollectionsInit /\ [][CollectionsNext]_vars

(***************************************************************************)
(* The request handlers. Postcode lookup: handler.do_POST of               *)
(* api/uprn-lookup.py and LocalHandler.handle_uprn_lookup of run_local.py. *)
(* Schedule: handler.do_GET of api/waste_collections.py,                   *)
(* api/waste-collections.py and api/waste-collections/[uprn].py, and       *)
(* LocalHandler.handle_collections of run_local.py.                        *)
(***************************************************************************)
\* What a write on self.wfile comes to: the bytes go out, or the write
\* raises because the client has gone.
WriteOutcomes == {"sent", "broken"}

\* The bodies of the requests: no JSON, JSON that is no object, an object
\* without "postcode", with a text as postcode, with a number as postcode.
RequestBodies ==
    {NoJson,
     [json |-> TRUE, object |-> FALSE, has_postcode |-> FALSE, is_str |-> FALSE,
      postcode |-> <<>>],
     [json |-> TRUE, object |-> TRUE, has_postcode |-> FALSE, is_str |-> FALSE,
      postcode |-> <<>>],
     [json |-> TRUE, object |-> TRUE, has_postcode |-> TRUE, is_str |-> FALSE,
      postcode |-> <<"1", "5">>]}
        \cup {[json |-> TRUE, object |-> TRUE, has_postcode |-> TRUE,
               is_str |-> TRUE, postcode |-> p] : p \in LookupPostcodes}

HandlerInit ==
    /\ hd_handler \in {"api/uprn-lookup.py", "run_local.py"}
    /\ hd_pc = "start"
    /\ hd_data \in RequestBodies
    /\ hd_uprn = <<>>
    /\ hd_service = "none"
    /\ hd_responses = <<>>
    /\ hd_closes = <<>>
    /\ hd_broken = FALSE
    /\ hd_raised = FALSE
    /\ LookupIdle
    /\ RetryIdle
    /\ PostcodeIdle
    /\ CollectionsIdle
    /\ NoScrapers

\* send_error_response(status_code, message) of api/uprn-lookup.py
ErrorResponse(status_code, message) ==
    [status |-> status_code,
     body |-> [error |-> message, addresses |-> <<>>, count |-> 0]]

\* send_error_response(status_code, message) of the schedule handlers, and
\* send_json_response(status_code, {"error": message}) of run_local.py
JsonError(status_code, message) ==
    [status |-> status_code, body |-> [error |-> message]]

\* The error answer of the handler serving the request.
HandlerError(status_code, message) ==
    IF hd_handler = "api/uprn-lookup.py"
    THEN ErrorResponse(status_code, message)
    ELSE JsonError(status_code, message)

\* The answer to a lookup that returned.
AddressesResponse(found, p) ==
    [status |-> 200,
     body |-> [addresses |-> found, postcode |-> p, count |-> Len(found)]]

\* except UPRNLookupError as e: 200 with the error details
LookupErrorResponse(e, p) ==
    [status |-> 200,
     body |-> [addresses |-> <<>>, postcode |-> p, count |-> 0,
               error |-> <<e.text, e.detail>>,
               error_type |-> "lookup_error"]]

\* One response: send_response, the headers, end_headers and the write of
\* the body, which may raise after the status line has gone out.
Send(r, w) ==
    /\ hd_responses' = Append(hd_responses, r)
    /\ hd_broken' = (hd_broken \/ w = "broken")

\* return after the response, or the exception of the write on its way to
\* the outermost except clause
AfterWrite(w) == hd_pc' = IF w = "sent" THEN "done" ELSE "except"

\* finally: service.close() / scraper.close()
Close ==
    /\ hd_service' = "closed"
    /\ hd_closes' = Append(hd_closes, Len(hd_responses'))

\* json.loads raises JSONDecodeError: api/uprn-lookup.py answers 400,
\* run_local.py has no clause for it and leaves it to "except Exception".
HandlerRejectsBody ==
    /\ hd_pc = "start"
    /\ ~hd_data.json
    /\ \E w \in WriteOutcomes :
          IF hd_handler = "api/uprn-lookup.py"
          THEN /\ Send(ErrorResponse(400, <<"Invalid JSON">>), w)
               /\ AfterWrite(w)
          ELSE /\ w = "sent"
               /\ hd_pc' = "except"
               /\ UNCHANGED <<hd_responses, hd_broken>>
    /\ UNCHANGED <<hd_handler, hd_data, hd_uprn, hd_service, hd_closes, hd_raised,
                   lookupVars>>
    /\ HandlerOnly

\* data.get('postcode') on JSON that is no object raises AttributeError.
HandlerBodyRaises ==
    /\ hd_pc = "start"
    /\ hd_data.json
    /\ ~hd_data.object
    /\ hd_pc' = "except"
    /\ UNCHANGED <<hd_handler, hd_data, hd_uprn, hd_service, hd_responses,
                   hd_closes, hd_broken, hd_raised, lookupVars>>
    /\ HandlerOnly

\* if not postcode: 400
HandlerMissingPostcode ==
    /\ hd_pc = "start"
    /\ hd_data.json
    /\ hd_data.object
    /\ ~hd_data.has_postcode \/ hd_data.postcode = <<>>
    /\ \E w \in WriteOutcomes :
          /\ Send(HandlerError(400, <<"Missing postcode field">>), w)
          /\ AfterWrite(w)
    /\ UNCHANGED <<hd_handler, hd_data, hd_uprn, hd_service, hd_closes, hd_raised,
                   lookupVars>>
    /\ HandlerOnly

\* service = UPRNLookupService(); service.lookup(postcode) is entered
HandlerCallsLookup ==
    /\ hd_pc = "start"
    /\ hd_data.json
    /\ hd_data.object
    /\ hd_data.has_postcode /\ hd_data.postcode # <<>>
    /\ hd_data.is_str
    /\ hd_service' = "open"
    /\ lk_pc' = "start"
    /\ lk_postcode' = hd_data.postcode
    /\ hd_pc' = "lookup"
    /\ UNCHANGED <<hd_handler, hd_data, hd_uprn, hd_responses, hd_closes,
                   hd_broken, hd_raised, normalized_postcode, lk_requests, form,
                   form_data, page, address_select, options, addresses,
                   lk_result>>
    /\ HandlerOnly

\* service.lookup(postcode) with a postcode that is no text: postcode.replace
\* raises AttributeError before the try block of lookup. api/uprn-lookup.py
\* answers 500 in "except Exception" and then closes; run_local.py closes
\* in finally and leaves the exception to the outer "except Exception".
HandlerLookupRaises ==
    /\ hd_pc = "start"
    /\ hd_data.json
    /\ hd_data.object
    /\ hd_data.has_postcode /\ hd_data.postcode # <<>>
    /\ ~hd_data.is_str
    /\ lk_pc' = "done"
    /\ lk_result' = [kind |-> "exception", type |-> "AttributeError"]
    /\ \E w \in WriteOutcomes :
          IF hd_handler = "api/uprn-lookup.py"
          THEN /\ Send(ErrorResponse(500, <<"Service error">>), w)
               /\ AfterWrite(w)
          ELSE /\ w = "sent"
               /\ hd_pc' = "except"
               /\ UNCHANGED <<hd_responses, hd_broken>>
    /\ Close
    /\ UNCHANGED <<hd_handler, hd_data, hd_uprn, hd_raised, lk_postcode,
                   normalized_postcode, lk_requests, form, form_data, page,
                   address_select, options, addresses>>
    /\ HandlerOnly

\* lookup returned: 200 with the addresses; finally: service.close(). When
\* the write raises, api/uprn-lookup.py answers once more, 500, in
\* "except Exception" before it closes.
HandlerSendsAddresses ==
    /\ hd_pc = "lookup"
    /\ lk_pc = "done"
    /\ lk_result.kind = "return"
    /\ \E w \in WriteOutcomes, again \in WriteOutcomes :
          LET found == AddressesResponse(lk_result.addresses, hd_data.postcode)
          IN  IF w = "broken" /\ hd_handler = "api/uprn-lookup.py"
              THEN /\ hd_responses' =
                         hd_responses
                             \o <<found, ErrorResponse(500, <<"Service error">>)>>
                   /\ hd_broken' = TRUE
                   /\ AfterWrite(again)
              ELSE /\ again = "sent"
                   /\ Send(found, w)
                   /\ AfterWrite(w)
    /\ Close
    /\ UNCHANGED <<hd_handler, hd_data, hd_uprn, hd_raised, lookupVars>>
    /\ HandlerOnly

\* lookup raised UPRNLookupError: 200 with the error; finally:
\* service.close()
HandlerSendsLookupError ==
    /\ hd_pc = "lookup"
    /\ lk_pc = "done"
    /\ lk_result.kind = "error"
    /\ \E w \in WriteOutcomes :
          /\ Send(LookupErrorResponse(lk_result, hd_data.postcode), w)
          /\ AfterWrite(w)
    /\ Close
    /\ UNCHANGED <<hd_handler, hd_data, hd_uprn, hd_raised, lookupVars>>
    /\ HandlerOnly

\* A slip: the outermost clause re-raises instead of answering.
HandlerOuterExcept_Reraises ==
    /\ hd_pc = "except"
    /\ hd_raised' = TRUE
    /\ hd_pc' = "done"
    /\ UNCHANGED <<hd_handler, hd_data, hd_uprn, hd_service, hd_responses,
                   hd_closes, hd_broken, retryVars, postcodeVars, lookupVars,
                   collectionVars, scrapers>>

\* The outermost "except Exception as e": 500. An exception of its own write
\* leaves do_GET / do_POST.
HandlerOuterExcept ==
    /\ hd_pc = "except"
    /\ \E w \in WriteOutcomes :
          /\ Send(HandlerError(500, <<"Internal server error">>), w)
          /\ hd_raised' = (w = "broken")
    /\ hd_pc' = "done"
    /\ UNCHANGED <<hd_handler, hd_data, hd_uprn, hd_service, hd_closes,
                   retryVars, postcodeVars, lookupVars, collectionVars,
                   scrapers>>

HandlerNext ==
    \/ HandlerRejectsBody
    \/ HandlerBodyRaises
    \/ HandlerMissingPostcode
    \/ HandlerCallsLookup
    \/ HandlerLookupRaises
    \/ LookupRejects
    \/ LookupAccepts
    \/ LookupGetOk
    \/ LookupGetFails
    \/ LookupPostFails
    \/ LookupNoContainer
    \/ LookupExtracts
    \/ HandlerSendsAddresses
    \/ HandlerSendsLookupError
    \/ HandlerOuterExcept

SpecLookupHandler == HandlerInit /\ [][HandlerNext]_vars

\* str.split(sep)
RECURSIVE SplitOn(_, _, _, _)
SplitOn(s, sep, parts, part) ==
    IF s = <<>> THEN Append(parts, part)
    ELSE IF Head(s) = sep THEN SplitOn(Tail(s), sep, Append(parts, part), <<>>)
    ELSE SplitOn(Tail(s), sep, parts, Append(part, Head(s)))

\* The uprn a schedule handler takes from the request, <<>> for None.
\*   for part in reversed(parts): if part and part.isdigit(): uprn = part
\* api/waste_collections.py and [uprn].py split self.path, which holds the
\* query; run_local.py splits the path without the query;
\* api/waste-collections.py first reads the query parameter "uprn" (the
\* queries of the requests hold one parameter).
ExtractUprn(h, request) ==
    LET full == IF request.query = <<>> THEN request.path
                ELSE request.path \o <<"?">> \o request.query
        LastDigitPart(parts) ==
            LET digit == {i \in 1..Len(parts) : IsDigit(parts[i])} IN
            IF digit = {} THEN <<>>
            ELSE parts[CHOOSE i \in digit : \A j \in digit : j <= i]
        pair == SplitOn(request.query, "=", <<>>, <<>>)
        param == IF Len(pair) = 2 /\ pair[1] = <<"u", "p", "r", "n">>
                 THEN pair[2] ELSE <<>>
    IN  CASE h = "api/waste-collections.py" ->
                IF param # <<>> THEN param
                ELSE LastDigitPart(SplitOn(request.path, "/", <<>>, <<>>))
          [] h = "run_local.py" ->
                LastDigitPart(SplitOn(request.path, "/", <<>>, <<>>))
          [] OTHER -> LastDigitPart(SplitOn(full, "/", <<>>, <<>>))

\* The GET requests: the path and the query of the URL.
ScheduleRequests ==
    LET api == <<"/", "a", "p", "i", "/", "c", "o", "l", "l", "e", "c", "t",
                 "i", "o", "n", "s", "/">>
        id == <<"1", "0", "0", "1", "2", "1", "1", "4">>
    IN  {[path |-> api \o id, query |-> <<>>],
         [path |-> api, query |-> <<>>],
         [path |-> api \o <<"1", "2", "a">>, query |-> <<>>],
         [path |-> api \o <<"7", "/", "n", "e", "x", "t", "/">>, query |-> <<>>],
         [path |-> api, query |-> <<"u", "p", "r", "n", "=", "a", "b", "c">>],
         [path |-> api \o id,
          query |-> <<"u", "p", "r", "n", "=", "2", "0", "0", "1", "2", "1",
                      "1", "4">>]}

ScheduleInit ==
    /\ hd_handler \in {"api/waste_collections.py", "api/waste-collections.py",
                       "api/waste-collections/[uprn].py", "run_local.py"}
    /\ hd_pc = "get"
    /\ hd_data \in ScheduleRequests
    /\ hd_uprn = <<>>
    /\ hd_service = "none"
    /\ hd_responses = <<>>
    /\ hd_closes = <<>>
    /\ hd_broken = FALSE
    /\ hd_raised = FALSE
    /\ LookupIdle
    /\ RetryIdle
    /\ PostcodeIdle
    /\ CollectionsIdle
    /\ NoScrapers

\* if not uprn: 400
ScheduleRejects ==
    /\ hd_pc = "get"
    /\ ExtractUprn(hd_handler, hd_data) = <<>>
    /\ \E w \in WriteOutcomes :
          /\ Send(JsonError(400, <<"Missing UPRN">>), w)
          /\ AfterWrite(w)
    /\ UNCHANGED <<hd_handler, hd_data, hd_uprn, hd_service, hd_closes, hd_raised,
                   retryVars, postcodeVars, lookupVars, collectionVars,
                   scrapers>>

\* scraper = SwindonScraper(); scraper.get_collections(uprn) is entered and
\* calls _make_request
ScheduleCallsScraper ==
    /\ hd_pc = "get"
    /\ ExtractUprn(hd_handler, hd_data) # <<>>
    /\ hd_uprn' = ExtractUprn(hd_handler, hd_data)
    /\ hd_service' = "open"
    /\ gc_pc' = "fetch"
    /\ mr_pc' = "loop"
    /\ hd_pc' = "collections"
    /\ UNCHANGED <<hd_handler, hd_data, hd_responses, hd_closes, hd_broken,
                   hd_raised, max_retries, retry_delay, attempt, outcomes, sleeps,
                   mr_result, soup, today, bin_sections, collections, gc_result,
                   postcodeVars, lookupVars, scrapers>>

\* get_collections returned: 200 with the collections; finally:
\* scraper.close()
ScheduleSendsCollections ==
    /\ hd_pc = "collections"
    /\ gc_pc = "done"
    /\ gc_result.kind = "return"
    /\ \E w \in WriteOutcomes :
          /\ Send([status |-> 200,
                   body |-> [collections |-> gc_result.collections,
                             uprn |-> hd_uprn]], w)
          /\ AfterWrite(w)
    /\ Close
    /\ UNCHANGED <<hd_handler, hd_data, hd_uprn, hd_raised, retryVars,
                   postcodeVars, lookupVars, collectionVars, scrapers>>

\* except SwindonScraperError as e: 400 with str(e); finally:
\* scraper.close()
ScheduleSendsScraperError ==
    /\ hd_pc = "collections"
    /\ gc_pc = "done"
    /\ gc_result.kind = "error"
    /\ \E w \in WriteOutcomes :
          /\ Send(JsonError(400, gc_result.msg), w)
          /\ AfterWrite(w)
    /\ Close
    /\ UNCHANGED <<hd_handler, hd_data, hd_uprn, hd_raised, retryVars,
                   postcodeVars, lookupVars, collectionVars, scrapers>>

\* One request to one of the handlers.  The handlers construct the scraper
\* with max_retries = 3, so its loop never ends without a return or a raise.
HandlersNext ==
    \/ HandlerRejectsBody
    \/ HandlerBodyRaises
    \/ HandlerMissingPostcode
    \/ HandlerCallsLookup
    \/ HandlerLookupRaises
    \/ LookupRejects
    \/ LookupAccepts
    \/ LookupGetOk
    \/ LookupGetFails
    \/ LookupPostFails
    \/ LookupNoContainer
    \/ LookupExtracts
    \/ HandlerSendsAddresses
    \/ HandlerSendsLookupError
    \/ ScheduleRejects
    \/ ScheduleCallsScraper
    \/ AttemptReturns
    \/ AttemptRateLimited
    \/ AttemptRaises
    \/ AttemptHTTPError
    \/ GetCollectionsFetchFails
    \/ GetCollectionsUnparseable
    \/ GetCollectionsNoSections
    \/ GetCollectionsExtracts
    \/ ScheduleSendsCollections
    \/ ScheduleSendsScraperError
    \/ HandlerOuterExcept

SpecHandlers == (HandlerInit \/ ScheduleInit) /\ [][HandlersNext]_vars

(***************************************************************************)
(* Two requests of the schedule endpoint served at the same time: each     *)
(* handler constructs its own SwindonScraper, calls _make_request on it    *)
(* and closes it. self.max_retries, self.retry_delay and self.session are  *)
(* attributes of the instance, attempt is a local variable of the call;    *)
(* the class attributes are tables that are only read.                     *)
(***************************************************************************)
\* A slip: the attempts are counted in one counter for all instances.
MakeRequestStep_SharedAttempt(s, o) ==
    LET n == CHOOSE a \in {scrapers[i].attempt : i \in DOMAIN scrapers} :
                 \A i \in DOMAIN scrapers : scrapers[i].attempt <= a
        tried == [s EXCEPT !.outcomes = Append(@, o)]
        retried ==
            [tried EXCEPT !.attempt = n + 1,
                          !.sleeps = Append(@, Min(s.retry_delay * (2 ^ n),
                                                   CapDelay))]
    IN  IF o = Resp(403)
        THEN IF n < s.max_retries - 1 THEN retried
             ELSE [tried EXCEPT
                      !.pc = "done",
                      !.result = ScraperError(<<"Rate limited by server (403)">>)]
        ELSE IF RequestRaises(o)
        THEN IF n < s.max_retries - 1 THEN retried
             ELSE [tried EXCEPT
                      !.pc = "done",
                      !.result = ScraperError(<<"Failed to fetch data: ">>
                                                  \o RaisedText(o))]
        ELSE [tried EXCEPT !.pc = "done", !.result = o]

\* One pass of "for attempt in range(self.max_retries)" on the scraper s,
\* the request of the pass coming to o: the 403 branch, the except clause
\* or the return.
MakeRequestStep(s, o) ==
    LET n == s.attempt
        tried == [s EXCEPT !.outcomes = Append(@, o)]
        retried ==
            [tried EXCEPT !.attempt = n + 1,
                          !.sleeps = Append(@, Min(s.retry_delay * (2 ^ n),
                                                   CapDelay))]
    IN  IF o = Resp(403)
        THEN IF n < s.max_retries - 1 THEN retried
             ELSE [tried EXCEPT
                      !.pc = "done",
                      !.result = ScraperError(<<"Rate limited by server (403)">>)]
        ELSE IF RequestRaises(o)
        THEN IF n < s.max_retries - 1 THEN retried
             ELSE [tried EXCEPT
                      !.pc = "done",
                      !.result = ScraperError(<<"Failed to fetch data: ">>
                                                  \o RaisedText(o))]
        ELSE [tried EXCEPT !.pc = "done", !.result = o]

ConcurrentInit ==
    /\ NoScrapers
    /\ RetryIdle
    /\ PostcodeIdle
    /\ LookupIdle
    /\ CollectionsIdle
    /\ HandlerIdle

ConcurrentOnly ==
    UNCHANGED <<retryVars, postcodeVars, lookupVars, collectionVars, handlerVars>>

\* scraper = SwindonScraper(): __init__ sets the attributes of the new
\* instance, and get_collections enters _make_request.
ConcurrentConstruct ==
    /\ \E i \in DOMAIN scrapers :
          /\ scrapers[i].pc = "new"
          /\ scrapers' =
                [scrapers EXCEPT
                    ![i] = [@ EXCEPT !.pc = "loop",
                                     !.session = "open",
                                     !.max_retries = DefaultMaxRetries,
                                     !.retry_delay = DefaultRetryDelay]]
    /\ ConcurrentOnly

\* One request on the session of one of the scrapers.
ConcurrentAttempt ==
    /\ \E i \in DOMAIN scrapers, o \in RequestOutcomes :
          /\ scrapers[i].pc = "loop"
          /\ scrapers[i].attempt < scrapers[i].max_retries
          /\ scrapers' = [scrapers EXCEPT ![i] = MakeRequestStep(@, o)]
    /\ ConcurrentOnly

\* finally: scraper.close(), after the call has returned or raised
ConcurrentClose ==
    /\ \E i \in DOMAIN scrapers :
          /\ scrapers[i].pc = "done"
          /\ scrapers[i].session = "open"
          /\ scrapers' = [scrapers EXCEPT ![i].session = "closed"]
    /\ ConcurrentOnly

ConcurrentNext ==
    \/ ConcurrentConstruct
    \/ ConcurrentAttempt
    \/ ConcurrentClose

SpecConcurrent == ConcurrentInit /\ [][ConcurrentNext]_vars

(***************************************************************************)
(* The postcode functions applied to bounded inputs.                       *)
(***************************************************************************)
Str(n, alphabet) == UNION {[1..k -> alphabet] : k \in 0..n}

PostcodeAlphabet == {"a", "1", " ", "\t", "\n"}

PostcodeExamples ==
    {<<"S", "N", "1", "5", "D", "X">>,
     <<"S", "N", "1", " ", "5", "D", "X">>,
     <<"s", "n", "1", " ", "5", "d", "x">>,
     <<" ", "s", "N", " ", "1", "5", " ", " ", "D", "x", " ">>,
     <<"Z", "Z", "9", "9">>,
     <<"E", "C", "1", "A", " ", "1", "B", "B">>,
     <<"S", "N", "1", "0", "5", "D", "X">>,
     <<"S", "N", "1", "\t", "5", "D", "X">>,
     <<"S", "N", "1", "5", "D", "X", "\n">>,
     <<"S", "N", "1", "5", "D", "\n">>}

PostcodeInputs == PostcodeExamples \cup Str(MaxPostcodeLen, PostcodeAlphabet)

PostcodeInit ==
    /\ postcode \in PostcodeInputs
    /\ pf_pc = "input"
    /\ normalized = <<>>
    /\ renormalized = <<>>
    /\ valid = FALSE
    /\ RetryIdle
    /\ LookupIdle
    /\ CollectionsIdle
    /\ HandlerIdle
    /\ NoScrapers

NormalizeOnce ==
    /\ pf_pc = "input"
    /\ normalized' = normalize_postcode(postcode)
    /\ pf_pc' = "normalized"
    /\ UNCHANGED <<postcode, renormalized, valid>>
    /\ PostcodeOnly

NormalizeAgain ==
    /\ pf_pc = "normalized"
    /\ renormalized' = normalize_postcode(normalized)
    /\ pf_pc' = "renormalized"
    /\ UNCHANGED <<postcode, normalized, valid>>
    /\ PostcodeOnly

Validate ==
    /\ pf_pc = "input"
    /\ normalized' = normalize_postcode(postcode)
    /\ valid' = validate_postcode(postcode)
    /\ pf_pc' = "validated"
    /\ UNCHANGED <<postcode, renormalized>>
    /\ PostcodeOnly

PostcodeNext ==
    \/ NormalizeOnce
    \/ NormalizeAgain
    \/ Validate

SpecPostcode == PostcodeInit /\ [][PostcodeNext]_vars

(***************************************************************************)
(* Properties of _make_request, checked under SpecRetry.                   *)
(***************************************************************************)
\* The failures the retry primitive is specified to retry: connection
\* error, timeout, HTTP 403.
Retryable(o) ==
    \/ o.kind = "exception"
    \/ (o.kind = "response" /\ o.status = 403)

\* A response whose status is an HTTP error other than 403.
OtherHTTPError(o) ==
    o.kind = "response" /\ o.status # 403 /\ RaisesForStatus(o.status)

Succeeded(o) ==
    o.kind = "response" /\ o.status # 403 /\ ~RaisesForStatus(o.status)

\* C1: when attempts 1..k-1 each ended in a retryable failure and attempt k
\* returned a successful status, the call returns attempt k's response and
\* has slept exactly k-1 times.
C1_RetryThenSuccess ==
    LET k == Len(outcomes) IN
    (/\ k >= 1
     /\ Succeeded(outcomes[k])
     /\ \A i \in 1..(k - 1) : Retryable(outcomes[i]))
    => /\ mr_pc = "done"
       /\ mr_result = [kind |-> "response", attempt |-> k - 1,
                       status |-> outcomes[k].status]
       /\ Len(sleeps) = k - 1

\* 403, 403, 200 with max_retries = 3: the third response after two sleeps.
C1_Witness ==
    /\ max_retries = 3
    /\ outcomes = <<Resp(403), Resp(403), Resp(200)>>
    /\ mr_result = [kind |-> "response", attempt |-> 2, status |-> 200]
    /\ Len(sleeps) = 2

\* C2: an HTTP error status other than 403 on any attempt ends the call at
\* once with an error: it is the last request issued and no sleep follows it.
C2_OtherHTTPErrorEndsCall ==
    \A i \in 1..Len(outcomes) :
        OtherHTTPError(outcomes[i])
        => /\ i = Len(outcomes)
           /\ mr_pc = "done"
           /\ mr_result.kind = "error"
           /\ Len(sleeps) <= i - 1

\* C3: the sleep after the failed attempt with 0-based index n lasts
\* min(retry_delay * 2^n, 30); there is one sleep between every failed
\* attempt and the next attempt, and none after the attempt that ends the call.
C3_BackoffSchedule ==
    /\ \A i \in 1..Len(sleeps) :
          /\ sleeps[i].after = i - 1
          /\ sleeps[i].delay =
                (IF retry_delay * (2 ^ (i - 1)) < 30
                 THEN retry_delay * (2 ^ (i - 1)) ELSE 30)
          /\ i <= Len(outcomes)
          /\ ~Succeeded(outcomes[i])
    /\ mr_pc = "loop" => Len(sleeps) = Len(outcomes)
    /\ (mr_pc = "done" /\ Len(outcomes) >= 1) => Len(sleeps) = Len(outcomes) - 1

\* An exhausted call that went through the 403 path and the exception path
\* and whose last sleep was capped.
C3_Witness ==
    /\ mr_pc = "done"
    /\ mr_result.kind = "error"
    /\ Len(outcomes) = max_retries
    /\ Len(sleeps) = max_retries - 1
    /\ \E i \in 1..Len(sleeps) :
          outcomes[i].kind = "exception" /\ sleeps[i].delay = 2 * retry_delay
    /\ \E i \in 1..Len(sleeps) :
          outcomes[i] = Resp(403) /\ sleeps[i].delay = 30
                                  /\ retry_delay * (2 ^ (i - 1)) > 30

\* The message the scraper's error is specified to carry for a last failure.
LastFailureMessage(o) ==
    IF o.kind = "exception"
    THEN <<"Failed to fetch data: ", o.text>>
    ELSE <<"Rate limited by server (403)">>

\* C4: a call in which every attempt ended in a retryable failure issued
\* exactly max_retries requests and failed with SwindonScraperError carrying
\* the description of the last failure.
C4_ExhaustionCarriesLastFailure ==
    (/\ mr_pc = "done"
     /\ Len(outcomes) >= 1
     /\ \A i \in 1..Len(outcomes) : Retryable(outcomes[i]))
    => /\ Len(outcomes) = max_retries
       /\ mr_result.kind = "error"
       /\ mr_result.type = "SwindonScraperError"
       /\ mr_result.msg = LastFailureMessage(outcomes[Len(outcomes)])

\* Three attempts, the last one a timeout after a 403 and a connection error.
C4_Witness ==
    /\ mr_pc = "done"
    /\ max_retries = 3
    /\ outcomes = <<Resp(403), Exc("ConnectionError"), Exc("Timeout")>>
    /\ mr_result = ScraperError(<<"Failed to fetch data: ", "Timeout">>)

\* C24: for every max_retries >= 0 and whatever the requests come to, the
\* call ends (checked under SpecRetryFair); it issues at most max_retries
\* requests and sleeps at most max_retries - 1 times, never a negative
\* number; it ends by returning a response or by raising
\* SwindonScraperError; with max_retries = 0 it raises "Max retries
\* exceeded" without a request.
C24_MakeRequestTerminates ==
    /\ <>(mr_pc = "done")
    /\ [](/\ Len(outcomes) <= max_retries
          /\ Len(sleeps) <= (IF max_retries >= 1 THEN max_retries - 1 ELSE 0))
    /\ [](mr_pc = "done"
          => /\ mr_result.kind \in {"response", "error"}
             /\ mr_result.kind = "error" => mr_result.type = "SwindonScraperError"
             /\ max_retries = 0
                   => /\ outcomes = <<>>
                      /\ mr_result = [kind |-> "error",
                                      type |-> "SwindonScraperError",
                                      msg |-> <<"Max retries exceeded">>])

\* A call with max_retries = 3 has ended after three requests and two
\* sleeps.
C24_Witness ==
    /\ mr_pc = "done"
    /\ max_retries = 3
    /\ Len(outcomes) = 3
    /\ Len(sleeps) = 2
    /\ mr_result.kind = "error"

(***************************************************************************)
(* Properties of the postcode functions, checked under SpecPostcode.       *)
(***************************************************************************)
IsLetter(c) == c \in UpperLetters \cup LowerLetters

\* The postcode grammar: 1-2 letters, 1-2 digits, optional letter, a space,
\* 1 digit, 2 letters.
PostcodeGrammar(s) ==
    \E a \in 1..2, b \in 1..2, c \in 0..1 :
        /\ Len(s) = a + b + c + 4
        /\ \A i \in 1..a : IsLetter(s[i])
        /\ \A i \in (a + 1)..(a + b) : s[i] \in Digits
        /\ \A i \in (a + b + 1)..(a + b + c) : IsLetter(s[i])
        /\ s[a + b + c + 1] = " "
        /\ s[a + b + c + 2] \in Digits
        /\ IsLetter(s[a + b + c + 3])
        /\ IsLetter(s[a + b + c + 4])

\* The normal form as the specification words it: all whitespace stripped,
\* upper-cased, one space inserted 3 characters from the end.
WhitespaceStrippedForm(p) ==
    LET q == Upper(SelectSeq(p, LAMBDA c : c \notin Whitespace)) IN
    IF Len(q) > 3
    THEN SubSeq(q, 1, Len(q) - 3) \o <<" ">> \o SubSeq(q, Len(q) - 2, Len(q))
    ELSE q

\* C6 as stated: validate_postcode(P) is true iff P with its whitespace
\* stripped, upper-cased and the separator inserted matches the grammar.
C6_ValidateIffStrippedMatches ==
    pf_pc = "validated"
    => (valid <=> PostcodeGrammar(WhitespaceStrippedForm(postcode)))

\* C6 amended: validate_postcode(P) is true iff _normalize_postcode(P), which
\* removes space characters only, matches the grammar; an input holding any
\* other whitespace character is never valid; "SN15DX" normalizes to
\* "SN1 5DX" and is valid, "ZZ99" is not.
C6_ValidateIffNormalizedMatches ==
    pf_pc = "validated"
    => /\ valid <=> PostcodeGrammar(normalized)
       /\ (\E i \in 1..Len(postcode) : postcode[i] \in Whitespace \ {" "}) => ~valid
       /\ postcode = <<"S", "N", "1", "5", "D", "X">>
             => (valid /\ normalized = <<"S", "N", "1", " ", "5", "D", "X">>)
       /\ postcode = <<"Z", "Z", "9", "9">> => ~valid

\* A lower-case postcode with stray spaces that validates.
C6_Witness ==
    /\ pf_pc = "validated"
    /\ postcode = <<" ", "s", "N", " ", "1", "5", " ", " ", "D", "x", " ">>
    /\ normalized = <<"S", "N", "1", " ", "5", "D", "X">>
    /\ valid

\* C7: normalizing a normalized postcode changes nothing.
C7_NormalizeIdempotent ==
    pf_pc = "renormalized" => renormalized = normalized

\* A postcode with several misplaced spaces, normalized twice.
C7_Witness ==
    /\ pf_pc = "renormalized"
    /\ postcode = <<" ", "s", "N", " ", "1", "5", " ", " ", "D", "x", " ">>
    /\ normalized = <<"S", "N", "1", " ", "5", "D", "X">>
    /\ renormalized = normalized

(***************************************************************************)
(* Properties of lookup, checked under SpecLookup.                         *)
(***************************************************************************)
\* The POST of the form was issued and did not raise.
PostSucceeded ==
    /\ lk_pc = "done"
    /\ Len(lk_requests) = 2
    /\ ~RequestRaises(lk_requests[2].outcome)

\* C5: a retryable failure (HTTP 403, connection error, timeout) of a request
\* of lookup is followed by a further attempt of that request instead of
\* failing the lookup.
C5_LookupRetriesRetryableFailure ==
    (/\ lk_pc = "done"
     /\ Len(lk_requests) >= 1
     /\ Retryable(lk_requests[1].outcome))
    => /\ Len(lk_requests) >= 2
       /\ lk_requests[2].method = lk_requests[1].method

\* C8: lookup on a postcode that fails validation raises the invalid-input
\* error without having issued any request.
C8_InvalidPostcodeFailsFast ==
    ~validate_postcode(lk_postcode)
    => /\ lk_requests = <<>>
       /\ lk_pc \in {"start", "done"}
       /\ lk_pc = "done" =>
             /\ lk_result.kind = "error"
             /\ lk_result.type = "UPRNLookupError"
             /\ lk_result.text = "Invalid postcode format: "

\* "ZZ99" rejected with no request issued.
C8_Witness ==
    /\ lk_pc = "done"
    /\ lk_postcode = <<"Z", "Z", "9", "9">>
    /\ lk_result.kind = "error"
    /\ lk_result.text = "Invalid postcode format: "
    /\ lk_requests = <<>>

\* The tests of the fallback chain, numbered in the order of their priority.
ChainTests == 1..7

ChainTest(k, sel) ==
    CASE k = 1 -> sel.name = Txt.AddressList
      [] k = 2 -> sel.name = Txt.Address
      [] k = 3 -> sel.name = Txt.Uprn
      [] k = 4 -> sel.id = Txt.AddressList
      [] k = 5 -> sel.id = Txt.Address
      [] k = 6 -> sel.name # Absent
                  /\ Contains(Lower(sel.name), Txt.Address)
      [] k = 7 -> sel.id # Absent
                  /\ Contains(Lower(sel.id), Txt.Address)

Matching(k) == {i \in 1..Len(page) : ChainTest(k, page[i])}

\* C9: the container is the first select, in document order, that passes
\* the first test of the chain any select passes; when no select passes any
\* test it is the page's only select; otherwise there is none, and lookup
\* fails with the no-container error and no candidates.
C9_ContainerByFallbackChain ==
    PostSucceeded
    => LET passing == [k \in ChainTests |-> Matching(k)] IN
       /\ \A k \in ChainTests :
             (passing[k] # {} /\ \A j \in 1..(k - 1) : passing[j] = {})
             => /\ address_select \in passing[k]
                /\ \A i \in passing[k] : address_select <= i
       /\ (\A k \in ChainTests : passing[k] = {})
             => address_select = (IF Len(page) = 1 THEN 1 ELSE 0)
       /\ address_select = 0
             => /\ lk_result.kind = "error"
                /\ lk_result.text = "No addresses found for postcode: "
                /\ addresses = <<>>
       /\ address_select # 0
             => ~(/\ lk_result.kind = "error"
                  /\ lk_result.text = "No addresses found for postcode: ")

\* A select whose name only contains "address" precedes one whose id is
\* exactly "address": the second is chosen.
C9_Witness ==
    /\ PostSucceeded
    /\ page = <<[name |-> <<"h", "o", "m", "e", "A", "d", "d", "r", "e", "s", "s">>,
                 id |-> Absent],
                [name |-> Absent, id |-> Txt.Address]>>
    /\ address_select = 2

\* The filter of the candidates.
PassesFilter(o) ==
    LET v == IF o.value = Absent THEN <<>> ELSE Strip(o.value)
        t == Lower(Strip(o.text))
    IN  /\ v # <<>>
        /\ v # <<"0">>
        /\ v # <<"-", "1">>
        /\ \A i \in 1..Len(v) : v[i] \in Digits
        /\ Len(v) >= 8
        /\ ~Contains(t, Txt.Select)
        /\ ~Contains(t, Txt.Choose)
        /\ ~Contains(t, Txt.Please)

ExampleOptions ==
    <<[value |-> <<"0">>,
       text |-> <<"S", "e", "l", "e", "c", "t", " ", "a", "n", " ", "a", "d",
                 "d", "r", "e", "s", "s">>],
      [value |-> <<"1", "0", "0", "1", "2", "1", "1", "4", "7", "4", "9", "0">>,
       text |-> <<"1", " ", "N", "y", "l", "a", "n", "d", " ", "R", "o", "a",
                 "d", ",", " ", "S", "W", "I", "N", "D", "O", "N", ",", " ",
                 "S", "N", "1", " ", "5", "D", "X">>]>>

\* C10: when lookup succeeds its result is the options of the container
\* that pass the filter, in upstream order, each once: value and label with
\* the surrounding whitespace removed.
C10_ResultIsFilteredOptions ==
    (lk_pc = "done" /\ lk_result.kind = "return")
    => LET kept == SelectSeq(options, PassesFilter) IN
       /\ Len(lk_result.addresses) = Len(kept)
       /\ \A i \in 1..Len(kept) :
             /\ lk_result.addresses[i].uprn =
                   Strip(kept[i].value)
             /\ lk_result.addresses[i].address = Strip(kept[i].text)
       /\ options = ExampleOptions
             => lk_result.addresses =
                   <<[uprn |-> ExampleOptions[2].value,
                      address |-> ExampleOptions[2].text]>>

\* The dropdown of the example: a placeholder and one address.
C10_Witness ==
    /\ lk_pc = "done"
    /\ options = ExampleOptions
    /\ lk_result.kind = "return"
    /\ Len(lk_result.addresses) = 1

\* The two failures of lookup on a page of the upstream.
NoContainerFailure ==
    LookupError("No addresses found for postcode: ", normalized_postcode)

NoAddressesFailure ==
    LookupError("No valid addresses found for postcode: ", normalized_postcode)

\* C11: lookup fails with the no-addresses-found error exactly when the
\* postcode was valid, a container was found and no option passes the filter;
\* it never returns an empty list; and that error is of another error kind
\* than the no-container failure.
C11_NoAddressesIsItsOwnKind ==
    lk_pc = "done"
    => /\ lk_result = NoAddressesFailure
          <=> /\ validate_postcode(lk_postcode)
              /\ address_select # 0
              /\ SelectSeq(options, PassesFilter) = <<>>
       /\ lk_result.kind = "return" => lk_result.addresses # <<>>
       /\ lk_result = NoAddressesFailure
             => lk_result.type # NoContainerFailure.type

\* The part of C11 the code does satisfy: when the error is raised, and that
\* no empty list is returned.
C11_NoAddressesExactlyWhenNoneSurvive ==
    lk_pc = "done"
    => /\ lk_result = NoAddressesFailure
          <=> /\ validate_postcode(lk_postcode)
              /\ address_select # 0
              /\ SelectSeq(options, PassesFilter) = <<>>
       /\ lk_result.kind = "return" => lk_result.addresses # <<>>

\* The hidden inputs of the form that carry a name.
Harvestable(f) ==
    {i \in 1..Len(f.inputs) :
        /\ f.inputs[i].type = Txt.Hidden
        /\ f.inputs[i].name # Absent
        /\ f.inputs[i].name # <<>>}

\* C12: a lookup issues at most two requests, a GET and then a POST; the
\* POST is issued only once the GET has returned a successful status, its
\* data are the hidden fields of the search form (the last value of each
\* name, '' without a value) plus the normalized postcode and the submit
\* field, and nothing is requested after it; a valid postcode issues at
\* least the GET.
C12_GetThenPost ==
    /\ Len(lk_requests) <= 2
    /\ \A i \in 1..Len(lk_requests) :
          lk_requests[i].method = (IF i = 1 THEN "GET" ELSE "POST")
    /\ lk_pc \in {"start", "get"} => lk_requests = <<>>
    /\ lk_pc = "post" => Len(lk_requests) = 1
    /\ (lk_pc = "done" /\ validate_postcode(lk_postcode))
          => Len(lk_requests) >= 1
    /\ Len(lk_requests) = 2
          => /\ lk_requests[1].outcome.kind = "response"
             /\ lk_requests[1].outcome.status \in 200..399
             /\ LET data == lk_requests[2].data
                    named == Harvestable(form)
                IN  /\ DOMAIN data =
                          {form.inputs[i].name : i \in named}
                              \cup {Txt.Postcode, Txt.PostcodeSubmit}
                    /\ data[Txt.Postcode] = normalize_postcode(lk_postcode)
                    /\ data[Txt.PostcodeSubmit] = Txt.Find
                    /\ \A i \in named :
                          (/\ form.inputs[i].name
                                 \notin {Txt.Postcode, Txt.PostcodeSubmit}
                           /\ \A j \in named :
                                 form.inputs[j].name = form.inputs[i].name
                                 => j <= i)
                          => data[form.inputs[i].name] =
                                (IF form.inputs[i].value = Absent THEN <<>>
                                 ELSE form.inputs[i].value)

\* Both requests issued, the POST carrying the fields of the search form.
C12_Witness ==
    /\ lk_pc = "done"
    /\ Len(lk_requests) = 2
    /\ form.found
    /\ Cardinality(DOMAIN lk_requests[2].data) = 4
    /\ lk_requests[2].data[Txt.Postcode] = <<"S", "N", "1", " ", "5", "D", "X">>

(***************************************************************************)
(* Properties of get_collections, checked under SpecCollections.           *)
(***************************************************************************)
\* The days of the pages, as ISO texts.
Iso20241231 == <<"2", "0", "2", "4", "-", "1", "2", "-", "3", "1">>
Iso20250228 == <<"2", "0", "2", "5", "-", "0", "2", "-", "2", "8">>
Iso20250303 == <<"2", "0", "2", "5", "-", "0", "3", "-", "0", "3">>
Iso20250310 == <<"2", "0", "2", "5", "-", "0", "3", "-", "1", "0">>
Iso20250317 == <<"2", "0", "2", "5", "-", "0", "3", "-", "1", "7">>

\* The day an ISO text of the pages names, counted from 31 December 2024:
\* January has 31 days and February 2025 has 28.
DayNumberOf(iso) ==
    CASE iso = Iso20241231 -> 0
      [] iso = Iso20250228 -> 59
      [] iso = Iso20250303 -> 62
      [] iso = Iso20250310 -> 69
      [] iso = Iso20250317 -> 76

TodayNumber ==
    CASE today = Date(2025, 3, 3) -> 62
      [] today = Date(2025, 2, 28) -> 59

\* The day each date text of the pages stands for; <<>> for a text in
\* neither format or naming no day of the calendar.
IsoOfText(text) ==
    CASE text = DateText.Mon03Mar2025 -> Iso20250303
      [] text = DateText.Padded3Mar2025 -> Iso20250303
      [] text = DateText.Plain10Mar2025 -> Iso20250310
      [] text = DateText.Mon17Mar2025 -> Iso20250317
      [] text = DateText.Fri28Feb2025 -> Iso20250228
      [] text = DateText.Plain31Dec2024 -> Iso20241231
      [] OTHER -> <<>>

\* The category label a heading shows.
LabelOf(section) ==
    IF section.h3.text = Label.PaddedRecyclingBoxes THEN Label.RecyclingBoxes
    ELSE section.h3.text

\* The date texts of a block in document order, and those that name a day.
DateTexts(section) ==
    (IF section.next.found THEN <<section.next.text>> ELSE <<>>)
        \o (IF section.future.found THEN section.future.spans ELSE <<>>)

ReadableDates(section) ==
    LET texts == DateTexts(section)
        readable == SelectSeq(texts, LAMBDA t : IsoOfText(t) # <<>>)
    IN  [i \in 1..Len(readable) |-> IsoOfText(readable[i])]

\* The block has a heading and a date text that names a day.
Yields(section) == section.h3.found /\ ReadableDates(section) # <<>>

Returned == gc_pc = "done" /\ gc_result.kind = "return"

\* C13: the events of a result are in ascending order of their dates, each
\* carries days_until = its date - today, and every block that has a heading
\* and a date is in the result whether its date is after, on or before
\* today.
C13_SortedWithDaysUntil ==
    Returned
    => LET c == gc_result.collections IN
       /\ \A i, j \in 1..Len(c) :
             i < j => DayNumberOf(c[i].date) <= DayNumberOf(c[j].date)
       /\ \A i \in 1..Len(c) :
             c[i].days_until = DayNumberOf(c[i].date) - TodayNumber
       /\ \A k \in 1..Len(bin_sections) :
             Yields(bin_sections[k])
             => \E i \in 1..Len(c) :
                   /\ c[i].date = ReadableDates(bin_sections[k])[1]
                   /\ c[i].type = LabelOf(bin_sections[k])

\* On 3 March 2025 a page lists the garden waste of that day before the
\* plastics of 31 December 2024: the result has the plastics first, 62 days
\* back, then the garden waste, 0 days ahead.
C13_Witness ==
    /\ Returned
    /\ today = Date(2025, 3, 3)
    /\ Len(bin_sections) = 2
    /\ bin_sections[1].h3.text = Label.GardenWasteBin
    /\ Len(gc_result.collections) = 2
    /\ gc_result.collections[1].type = Label.Plastics
    /\ gc_result.collections[1].date = Iso20241231
    /\ gc_result.collections[1].days_until = -62
    /\ gc_result.collections[2].type = Label.GardenWasteBin
    /\ gc_result.collections[2].days_until = 0

\* C14: no two events of a result have the same date and the same waste
\* type.
C14_UniquePerDateAndType ==
    Returned
    => \A i, j \in 1..Len(gc_result.collections) :
          (/\ gc_result.collections[i].date = gc_result.collections[j].date
           /\ gc_result.collections[i].type = gc_result.collections[j].type)
          => i = j

\* The response was fetched and parsed.
Parsed == gc_pc = "done" /\ mr_result.kind = "response" /\ soup = "parsed"

\* C15: a response that is fetched and parsed and holds no collection block
\* makes get_collections return the empty list, not raise.
C15_NoSectionsReturnsEmpty ==
    (Parsed /\ bin_sections = <<>>)
    => gc_result = [kind |-> "return", collections |-> <<>>]

\* The first request is answered 200 with a page without blocks.
C15_Witness ==
    /\ Parsed
    /\ outcomes = <<Resp(200)>>
    /\ bin_sections = <<>>
    /\ gc_result.kind = "return"
    /\ gc_result.collections = <<>>

\* The blocks of the page that have a heading and a date text naming a day.
YieldingSections == {k \in 1..Len(bin_sections) : Yields(bin_sections[k])}

\* C16: a date text is read in the format "Weekday, DD Month YYYY" or in the
\* format "DD Month YYYY"; a block none of whose date texts is in either
\* format gives no event and no error: get_collections returns, with one
\* event for each of the other blocks that have a heading, dated by the
\* block's first readable date.
C16_UnreadableDateSkipsOnlyItsBlock ==
    Parsed
    => /\ gc_result.kind = "return"
       /\ Len(gc_result.collections) = Cardinality(YieldingSections)
       /\ \A k \in YieldingSections :
             \E i \in 1..Len(gc_result.collections) :
                /\ gc_result.collections[i].date =
                      ReadableDates(bin_sections[k])[1]
                /\ gc_result.collections[i].type = LabelOf(bin_sections[k])

\* A block dated "03/03/2025" stands before one dated "10 March 2025": the
\* result is the one event of the second block.
C16_Witness ==
    /\ Parsed
    /\ Len(bin_sections) = 2
    /\ bin_sections[1].next.text = DateText.Slashes
    /\ bin_sections[2].next.text = DateText.Plain10Mar2025
    /\ gc_result.kind = "return"
    /\ Len(gc_result.collections) = 1
    /\ gc_result.collections[1].date = Iso20250310
    /\ gc_result.collections[1].type = Label.RecyclingBoxes

\* The icon of each category label, "trash-can" for any other label.
IconOfLabel(label) ==
    CASE label = Label.RubbishBin -> "trash-can"
      [] label = Label.RubbishFood -> "trash-can"
      [] label = Label.RecyclingBoxes -> "recycle"
      [] label = Label.RecyclingFood -> "recycle"
      [] label = Label.GardenWasteBin -> "leaf"
      [] label = Label.GardenWaste -> "leaf"
      [] label = Label.Plastics -> "bottle"
      [] OTHER -> "trash-can"

\* C17: the icon of an event is the entry of the table for the label of its
\* block, the default icon for a label the table does not hold; a block with
\* such a label still gives its event.
C17_IconFromLabelTable ==
    Returned
    => /\ \A i \in 1..Len(gc_result.collections) :
             gc_result.collections[i].icon =
                IconOfLabel(gc_result.collections[i].type)
       /\ \A k \in YieldingSections :
             \E i \in 1..Len(gc_result.collections) :
                /\ gc_result.collections[i].type = LabelOf(bin_sections[k])
                /\ gc_result.collections[i].icon =
                      IconOfLabel(LabelOf(bin_sections[k]))

\* "Garden waste bin" gets "leaf", the unknown "Food caddy" the default.
C17_Witness ==
    /\ Returned
    /\ Len(gc_result.collections) = 2
    /\ gc_result.collections[1].type = Label.FoodCaddy
    /\ gc_result.collections[1].icon = "trash-can"
    /\ gc_result.collections[2].type = Label.GardenWasteBin
    /\ gc_result.collections[2].icon = "leaf"

\* C18: the icon of an event whose block carries a recognized icon class is
\* the one of that indicator; the icon of the label table is used only for a
\* block without one.
C18_IndicatorPreferredOverLabel ==
    Returned
    => \A i \in 1..Len(gc_result.collections) :
          IF gc_result.collections[i].bin_image # NoImage
          THEN gc_result.collections[i].icon = gc_result.collections[i].bin_image
          ELSE gc_result.collections[i].icon =
                  IconOfLabel(gc_result.collections[i].type)

\* C19: get_collections ends by returning a list or by raising
\* SwindonScraperError; it raises only when _make_request gave up or the
\* parser rejected the content, and returns whenever the response was
\* fetched and parsed.
C19_RaisesOnlyScraperError ==
    gc_pc = "done"
    => /\ gc_result.kind \in {"return", "error"}
       /\ gc_result.kind = "error"
             => /\ gc_result.type = "SwindonScraperError"
                /\ mr_result.kind = "error" \/ soup = "rejected"
       /\ Parsed => gc_result.kind = "return"

\* Three attempts, the last one timing out: the error of _make_request is
\* raised again as SwindonScraperError.
C19_Witness ==
    /\ gc_pc = "done"
    /\ max_retries = 3
    /\ Len(outcomes) = 3
    /\ outcomes[3] = Exc("Timeout")
    /\ mr_result.kind = "error"
    /\ gc_result.kind = "error"
    /\ gc_result.type = "SwindonScraperError"
    /\ gc_result.msg = <<"Failed to get collections: ", "Failed to fetch data: ",
                         "Timeout">>

\* The event a block with a heading and a readable date stands for: dated
\* by the first of its date texts that names a day, listing all that do in
\* document order, days_until counted from the first.
ExpectedEvent(section) ==
    [type |-> LabelOf(section),
     date |-> ReadableDates(section)[1],
     dates |-> ReadableDates(section),
     days_until |-> DayNumberOf(ReadableDates(section)[1]) - TodayNumber]

\* C28: the events of a result are, one for one, the expected events of the
\* blocks that have a heading and at least one date text that names a day,
\* be it the next date or a further date; a block without a heading or
\* without such a date text has no event.
C28_OneEventPerBlockWithADate ==
    Parsed
    => /\ gc_result.kind = "return"
       /\ LET c == gc_result.collections
              Event(i) == [type |-> c[i].type, date |-> c[i].date,
                           dates |-> c[i].dates,
                           days_until |-> c[i].days_until]
          IN  /\ Len(c) = Cardinality(YieldingSections)
              /\ \A k \in YieldingSections :
                    Cardinality({i \in 1..Len(c) :
                                    Event(i) = ExpectedEvent(bin_sections[k])})
                        = Cardinality({j \in YieldingSections :
                                          ExpectedEvent(bin_sections[j])
                                              = ExpectedEvent(bin_sections[k])})

\* On 3 March 2025 the next date of the one block reads "30 February 2025"
\* and its further dates "Tuesday 31 December 2024", "31 December 2024" and
\* "10 March 2025": the event is dated 31 December 2024, 62 days back, and
\* lists that day and 10 March 2025.
C28_Witness ==
    /\ Parsed
    /\ today = Date(2025, 3, 3)
    /\ Len(bin_sections) = 1
    /\ bin_sections[1].next.text = DateText.Plain30Feb2025
    /\ bin_sections[1].future.spans =
          <<DateText.NoComma, DateText.Plain31Dec2024, DateText.Plain10Mar2025>>
    /\ Len(gc_result.collections) = 1
    /\ gc_result.collections[1].date = Iso20241231
    /\ gc_result.collections[1].dates = <<Iso20241231, Iso20250310>>
    /\ gc_result.collections[1].days_until = -62

(***************************************************************************)
(* Properties of the postcode-lookup endpoint, checked under               *)
(* SpecLookupHandler.                                                      *)
(***************************************************************************)
\* The lookup of the request failed; it failed because a request to the
\* upstream raised a connection error or timed out.
LookupFailed == hd_pc = "done" /\ lk_pc = "done" /\ lk_result.kind = "error"

TransportFailure ==
    /\ LookupFailed
    /\ lk_requests # <<>>
    /\ lk_requests[Len(lk_requests)].outcome.kind = "exception"

\* The error_type the endpoint answers a "no results" failure with.
NoResultsErrorTypes ==
    {LookupErrorResponse(NoContainerFailure, hd_data.postcode).body.error_type,
     LookupErrorResponse(NoAddressesFailure, hd_data.postcode).body.error_type}

\* C20: a failed lookup is answered 200 with an empty address list, the
\* error message and an error_type, and the error_type of a transport
\* failure is none of those of a "no results" failure.
C20_NoResultsDistinctFromTransportFailure ==
    LookupFailed
    => /\ hd_responses # <<>>
       /\ hd_responses[1].status = 200
       /\ hd_responses[1].body.addresses = <<>>
       /\ hd_responses[1].body.error = <<lk_result.text, lk_result.detail>>
       /\ "error_type" \in DOMAIN hd_responses[1].body
       /\ TransportFailure
             => hd_responses[1].body.error_type \notin NoResultsErrorTypes

\* The part of C20 the endpoint does satisfy: the shape of the answer.
C20_FailureAnswered200 ==
    LookupFailed
    => /\ hd_responses # <<>>
       /\ hd_responses[1].status = 200
       /\ hd_responses[1].body.addresses = <<>>
       /\ hd_responses[1].body.error = <<lk_result.text, lk_result.detail>>
       /\ "error_type" \in DOMAIN hd_responses[1].body

\* The request was answered over a connection that took every write.
Answered == hd_pc = "done" /\ ~hd_broken

\* The body is JSON, an object, and holds a text as postcode.
HasPostcodeText ==
    /\ hd_data.json
    /\ hd_data.object
    /\ hd_data.has_postcode
    /\ hd_data.is_str
    /\ hd_data.postcode # <<>>

\* C21: a lookup that fails on well-formed input is answered 200 with an
\* empty address list and a message; a body that is no JSON, a missing
\* postcode and a postcode that is not in the postcode format are answered
\* with a status of 400 or more, never 200.
C21_MalformedInputIsHardError ==
    (Answered /\ hd_handler \in {"api/uprn-lookup.py", "run_local.py"})
    => /\ hd_responses # <<>>
       /\ (HasPostcodeText /\ PostcodeGrammar(WhitespaceStrippedForm(hd_data.postcode))
            /\ lk_result.kind = "error")
             => /\ hd_responses[1].status = 200
                /\ hd_responses[1].body.addresses = <<>>
                /\ hd_responses[1].body.error # <<>>
       /\ (~HasPostcodeText
            \/ ~PostcodeGrammar(WhitespaceStrippedForm(hd_data.postcode)))
             => \A i \in 1..Len(hd_responses) : hd_responses[i].status >= 400

\* The part of C21 the endpoint does satisfy: every input but a postcode
\* text that is not in the postcode format.
C21_HardErrorUnlessPostcodeText ==
    (Answered /\ hd_handler \in {"api/uprn-lookup.py", "run_local.py"})
    => /\ hd_responses # <<>>
       /\ (HasPostcodeText /\ lk_result.kind = "error")
             => /\ hd_responses[1].status = 200
                /\ hd_responses[1].body.addresses = <<>>
                /\ hd_responses[1].body.error # <<>>
       /\ ~HasPostcodeText
             => \A i \in 1..Len(hd_responses) : hd_responses[i].status >= 400

(***************************************************************************)
(* Properties of the request handlers, checked under SpecHandlers.         *)
(***************************************************************************)
\* The core component of the request failed: the lookup or get_collections
\* raised, or the request named no postcode or identifier to call it with.
CoreFailed ==
    \/ lk_result.kind \in {"error", "exception"}
    \/ gc_result.kind = "error"
    \/ hd_service = "none"

C25_ClosedOnceAfterResponse ==
    (Answered /\ hd_service # "none")
    => /\ hd_service = "closed"
       /\ Len(hd_closes) = 1
       /\ hd_responses # <<>>
       /\ hd_closes[1] = Len(hd_responses)

\* C26: a request whose core component returned is answered with exactly
\* one response, the 200, also when the write of that response raises: no
\* error status follows the 200.
C26_ExactlyOneResponse ==
    (hd_pc = "done" /\ "return" \in {lk_result.kind, gc_result.kind})
    => /\ Len(hd_responses) = 1
       /\ \A i, j \in 1..Len(hd_responses) :
             (i < j /\ hd_responses[i].status = 200)
             => hd_responses[j].status < 400

\* The request is a GET of the schedule endpoint, past the extraction of
\* the identifier.
ScheduleRouted == "path" \in DOMAIN hd_data /\ hd_pc # "get"

\* C27: a schedule handler calls the scraper only with a non-empty
\* identifier made of the digits 0..9; when it finds none it answers 400
\* without constructing a scraper and without a request to the upstream.
C27_ScraperCalledWithDigitsOnly ==
    ScheduleRouted
    => IF hd_service # "none"
       THEN /\ hd_uprn # <<>>
            /\ \A i \in 1..Len(hd_uprn) :
                  hd_uprn[i] \in {"0", "1", "2", "3", "4", "5", "6", "7", "8", "9"}
       ELSE /\ hd_uprn = <<>>
            /\ outcomes = <<>>
            /\ hd_responses[1].status = 400

\* The part of C27 every handler but api/waste-collections.py satisfies.
C27_PathHandlersCallWithDigitsOnly ==
    hd_handler # "api/waste-collections.py" => C27_ScraperCalledWithDigitsOnly

(***************************************************************************)
(* Properties of two requests served at the same time, checked under       *)
(* SpecConcurrent.                                                         *)
(***************************************************************************)
\* What the scraper of one request has come to, told from the outcomes of
\* its own requests alone: every outcome but a 200 is a failure, a failed
\* first or second attempt is followed by a sleep of 2 and of 4 seconds, the
\* call ends with the 200 or with the third failure, and the session is
\* closed only after the call has ended.
OwnOutcomesDecide(s) ==
    LET n == Len(s.outcomes)
        failures == {k \in 1..n : s.outcomes[k] # Resp(200)}
        retries == IF Cardinality(failures) < 2 THEN Cardinality(failures) ELSE 2
        ended == n > 0 /\ (s.outcomes[n] = Resp(200) \/ n = 3)
    IN  /\ n <= 3
        /\ \A k \in 1..(n - 1) : k \in failures
        /\ s.attempt = retries
        /\ s.sleeps = SubSeq(<<2, 4>>, 1, retries)
        /\ (s.pc = "done") <=> ended
        /\ s.pc = "new" => (n = 0 /\ s.session = "none")
        /\ s.pc = "loop" => s.session = "open"
        /\ s.session = "closed" => ended
        /\ (ended /\ s.outcomes[n] = Resp(200)) => s.result = Resp(200)
        /\ (ended /\ s.outcomes[n] # Resp(200))
              => (s.result.kind = "error" /\ n = 3)

\* C23: in every interleaving of two requests a step of one request leaves
\* the scraper of the other as it is (its attempts, its session, its
\* result), and the attempts, sleeps, session and result of each request
\* follow from the outcomes of its own requests.
C23_RequestsAreIndependent ==
    /\ [](\A i \in DOMAIN scrapers : OwnOutcomesDecide(scrapers[i]))
    /\ [][\E i \in DOMAIN scrapers :
            \A j \in DOMAIN scrapers \ {i} : scrapers'[j] = scrapers[j]]_vars

\* The first request has failed three times, raised and closed its session;
\* the second was answered 200 at its first attempt and its session is
\* open.
C23_Witness ==
    /\ scrapers[1].outcomes = <<Resp(403), Exc("Timeout"), Resp(500)>>
    /\ scrapers[1].result.kind = "error"
    /\ scrapers[1].session = "closed"
    /\ scrapers[2].outcomes = <<Resp(200)>>
    /\ scrapers[2].result = Resp(200)
    /\ scrapers[2].attempt = 0
    /\ scrapers[2].session = "open"

====
